\* One call and one request: a party opens it to look at it.
CONSTANTS
  None = None
  Calls = {k1}
  Users = {ann, ben}
  CanMentor = {ben}
  SeeksMentor = {ann}
  Viewers = {ann}
  Requests = {q1}
  Relationships = {}
  MSessions = {}
  ClientStatuses = {}
  ClientCounts = {}
  MaxCompleted = 2
SPECIFICATION MentorshipFairSpec
PROPERTY ViewReturns
CHECK_DEADLOCK FALSE
