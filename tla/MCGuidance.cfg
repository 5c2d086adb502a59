\* Seven components, each with two calls at a time, one of them in each behaviour.
CONSTANTS
  None = None
  Calls = {k1, k2}
  ann = ann
  ben = ben
  q1 = q1
  k1 = k1
  k2 = k2
  u1 = u1
  u2 = u2
  e1 = e1
  e2 = e2
  m1 = m1
  m2 = m2
  m3 = m3
  Users = {ann, ben}
  CanMentor = {ben}
  SeeksMentor = {ann}
  Viewers = {ann}
  Requests = {q1}
  Relationships = {u1, u2}
  MSessions = {m1, m2}
  ClientStatuses = {}
  ClientCounts = {2}
  MaxCompleted = 1
  CSessions = {m1}
  StageCount = 3
  Crises = {m2}
  MaxTurns = 2
  RuleSets = {m1, m2, m3}
  MaxLessons = 2
  MaxPosts = 3
  ReadLimit = 2
  JobAttempts = 2
  Emails = {e1, e2}
  Names = {"name"}
  Subjects = {m3}
  Profiles = {u1, u2}
  MaxAttempts = 2
  MaxCodes = 3
  Staffers = {u1, u2}
  Mailboxes = {e1, e2}
  Companies = {"acme", "beta"}
  CompanyOf <- AllAcme
  LinkIds = {m1, m2, m3}
  AutoHide = 75
  AutoRemove = 90
  Replies <- MCReplies
SPECIFICATION GuidanceSpec
SYMMETRY Symmetry
CONSTRAINT Few
INVARIANTS
  RelationshipRestsOnAcceptance
  AcceptedHasRelationship
  ScheduledCountNeverLeads
  StoredStageWasSpoken
  RedirectIsLogged
  CrisisReachesTeam
  RulebookSurvives
  HitCoversContent
  CodeConfirmsOnce
  ResendBudget
  ConfirmationHasGround
  OneBadgePerMailbox
  TypeOK
  RolloutNeverWeakens
  MoreConfidenceNeverWeakens
  UnreviewedOnlyWhenClear
  CrisisReachesHuman
  GarbledReplyFailsOpen
PROPERTY ImplementsGrowArc
\* The users may stop asking.
CHECK_DEADLOCK FALSE
