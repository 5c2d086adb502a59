SPECIFICATION LivenessSpec
CONSTANTS
  AutoHide = 75
  AutoRemove = 90
  c1 = c1
  c2 = c2
  w1 = w1
  w2 = w2
  s1 = s1
  s2 = s2
  r1 = r1
  r2 = r2
  r3 = r3
  r4 = r4
  Content = {c1, c2}
  Workers = {w1, w2}
  Staff = {}
  Reporters = {}
  Mode = "full"
  Verdicts <- OnlyHide
  HasApiKey = TRUE
  StaffAuthored = {}
  Nooks = {}
  NookMessages = {}
  ShortContent = {c2}
  Flaggable = {c1, c2}
  Referral = {}
  MaxPerType = 2
  LookbackSweeps = 2
  MaxFaults = 0
  MaxCrashes = 1
  MaxStalls = 0
  MaxPurges = 0
  None = None
  k1 = k1
  k2 = k2
  ann = ann
  ben = ben
  Calls = {k1, k2}
  Users = {ann, ben}
  Viewers = {ann}
  Items = {c1}
  TypeOf <- AllNooks
  OwnerOf <- AllBens
  MaxItems = 1
  MaxFailures = 1
  MaxChanges = 2
CONSTRAINT FewFeeds
PROPERTIES
  EveryPostModerated
  FeedsCatchUp
CHECK_DEADLOCK FALSE
