SPECIFICATION Spec
CONSTANTS
  alice = alice
  bob = bob
  a1 = a1
  a2 = a2
  b1 = b1
  b2 = b2
  NoConn = NoConn
  User = {alice, bob}
  Conn = {a1, b1}
  Owner <- OwnerPair
  Founder <- FounderPair
  SendCap = 1
  QueueCap = 1
  MaxSay <- SayPair
  MaxSelect <- SelectPair
  MaxRestart = 0
  DbMayFail = FALSE
CHECK_DEADLOCK FALSE
INVARIANT StrictlyIncreasing
