\* Seven components, each with two calls at a time, one of them in each behaviour.
CONSTANTS
  None = None
  k1 = k1
  k2 = k2
  u1 = u1
  u2 = u2
  v1 = v1
  v2 = v2
  n1 = n1
  p1 = p1
  f1 = f1
  t1 = t1
  a1 = a1
  x1 = x1
  x2 = x2
  m1 = m1
  m2 = m2
  m3 = m3
  Calls = {k1, k2}
  NookIds = {n1}
  Members = {v1, v2}
  MessageIds = {m1, m2, m3}
  PostIds = {p1}
  Readers = {u1, u2}
  CommentIds = {m1, m2, m3}
  ForumIds = {f1}
  TopicIds = {t1}
  Authors = {u1, u2}
  ReplyIds = {m1, m2, m3}
  Fans = {u1, u2}
  CommentsMade = {x1, x2}
  Admins = {a1}
  Accused = {a1}
  ChatMessages = {x1, x2}
  MaxTime = 3
  Users = {v1, v2}
  Viewers = {v1}
  Items = {p1, t1}
  TypeOf <- KindOf
  OwnerOf <- AllV2s
  MaxItems = 1
  MaxFailures = 1
  MaxChanges = 2
SPECIFICATION CommunitySpec
SYMMETRY Symmetry
CONSTRAINT Few
INVARIANTS
  NookCountsAddUp
  EngagementCountsAddUp
  ForumCountsAddUp
  ReferralCountsNeverLead
  TimelineNamesEveryStatus
  NewMessageIsListed
  HidesTakeEffect
  ClearedFeedsAreFresh
\* The users may stop asking.
CHECK_DEADLOCK FALSE
