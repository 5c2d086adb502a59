\* Three users, two calls at a time, any of which may end early or misread.
CONSTANTS
  ann = ann
  ben = ben
  cam = cam
  p1 = p1
  None = None
  Users = {ann, ben, cam}
  Reveals = {r1}
  Conversations = {c1}
  Connections = {k1}
  Posts = {p1}
  PostOwner <- JustBen
  InitialSlots <- OneSlot
  Calls = {x1, x2}
  ReadsMayFail = TRUE
  CallsMayEnd = TRUE
SPECIFICATION Spec
SYMMETRY RowSymmetry
INVARIANTS
  DisclosureNeedsConsent
  CountNeverLeads
PROPERTY
  ImplementsMutualConsent
\* Users may stop asking: with every row used the run has nothing left to do.
CHECK_DEADLOCK FALSE
