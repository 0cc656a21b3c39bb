SPECIFICATION FairSpec
CONSTANTS
  alice = alice
  bob = bob
  a1 = a1
  a2 = a2
  b1 = b1
  b2 = b2
  NoConn = NoConn
  User = {alice, bob}
  Conn = {a1, a2, b1, b2}
  Owner <- OwnerTwo
  Founder <- FounderTwo
  SendCap = 1
  QueueCap = 1
  MaxSay <- SayTwice
  MaxSelect <- SelectTwice
  MaxRestart = 1
  DbMayFail = TRUE
CHECK_DEADLOCK FALSE
INVARIANTS TypeOK PerSenderOrder HistoryInOrder CounterNotAhead
PROPERTIES HandledIsStored ImplementsConversation
