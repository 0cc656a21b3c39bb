SPECIFICATION Spec
CONSTANTS
  User = {alice, bob}
  Room = {lobby}
  Request = {q1, q2, q3}
  Seeded = {alice}
  Nobody = Nobody
  MayFail = FALSE
CHECK_DEADLOCK FALSE
INVARIANT RegisterAnswers
