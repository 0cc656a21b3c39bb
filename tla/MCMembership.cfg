SPECIFICATION FairSpec
CONSTANTS
  User = {alice, bob}
  Room = {lobby}
  Request = {q1, q2, q3, q4}
  Seeded = {alice}
  Nobody = Nobody
  MayFail = TRUE
CHECK_DEADLOCK FALSE
INVARIANTS CreatorAdministers NoticeIsActionable OneAccountPerName
PROPERTY AllAnswered
