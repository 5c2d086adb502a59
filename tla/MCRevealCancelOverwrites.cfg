\* One reveal, answered and cancelled at the same time.
CONSTANTS
  ann = ann
  ben = ben
  cam = cam
  p1 = p1
  None = None
  Users = {ann, ben}
  Reveals = {r1}
  Conversations = {c1}
  Connections = {}
  Posts = {}
  PostOwner <- NoOwner
  InitialSlots <- NoOwner
  Calls = {x1, x2}
  ReadsMayFail = FALSE
  CallsMayEnd = FALSE
SPECIFICATION Spec
PROPERTY
  OnlyPendingIsCancelled
CHECK_DEADLOCK FALSE
