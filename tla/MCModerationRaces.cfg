SPECIFICATION Spec
CONSTANTS
  AutoHide = 75
  AutoRemove = 90
  c1 = c1
  c2 = c2
  w1 = w1
  w2 = w2
  s1 = s1
  s2 = s2
  r1 = r1
  r2 = r2
  r3 = r3
  r4 = r4
  Content = {c1}
  Workers = {w1, w2}
  Staff = {s1}
  Reporters = {}
  Mode = "full"
  Verdicts <- EveryOutcome
  HasApiKey = TRUE
  StaffAuthored = {}
  Nooks = {c1}
  NookMessages = {}
  ShortContent = {}
  Flaggable = {c1}
  Referral = {}
  MaxPerType = 2
  LookbackSweeps = 1
  MaxFaults = 0
  MaxCrashes = 0
  MaxStalls = 1
  MaxPurges = 0
INVARIANTS
  AiHideIsReviewable
  CrisisIsCaredFor
  ReversalIsComplete
PROPERTY ImplementsContentVisibility
CHECK_DEADLOCK FALSE
