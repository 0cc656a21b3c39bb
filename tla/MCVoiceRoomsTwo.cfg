SPECIFICATION Spec
CONSTANTS
  alice = alice
  bob = bob
  carol = carol
  a1 = a1
  a2 = a2
  b1 = b1
  b2 = b2
  c1 = c1
  Nil = Nil
  User = {alice, bob}
  Call = {a1, a2, b1}
  Caller <- CallerTwo
  Room = {r1, r2, r3}
  MayFail = FALSE
CHECK_DEADLOCK FALSE
INVARIANT OneRoom
