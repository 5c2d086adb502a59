\* Two users, two calls at a time: every race of the two reveal services.
CONSTANTS
  ann = ann
  ben = ben
  cam = cam
  p1 = p1
  None = None
  Users = {ann, ben}
  Reveals = {r1, r2}
  Conversations = {c1}
  Connections = {k1}
  Posts = {p1}
  PostOwner <- JustBen
  InitialSlots <- OneSlot
  Calls = {x1, x2}
  ReadsMayFail = FALSE
  CallsMayEnd = FALSE
SPECIFICATION Spec
SYMMETRY RowSymmetry
PROPERTY
  AcceptanceReachesConversations
\* Users may stop asking: with every row used the run has nothing left to do.
CHECK_DEADLOCK FALSE
