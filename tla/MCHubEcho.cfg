SPECIFICATION FairSpec
CONSTANTS
  alice = alice
  bob = bob
  a1 = a1
  a2 = a2
  b1 = b1
  NoConn = NoConn
  User = {alice}
  Conn = {a1}
  Single = {q1}
  Owner <- OwnerOne
  CoMember <- AloneTwice
  Rpc = {"echo", "quiet"}
  SendCap = 1
  MaxRpc <- MaxRpcOne
CHECK_DEADLOCK FALSE
PROPERTY GoneIsRemoved
