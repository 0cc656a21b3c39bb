SPECIFICATION FairSpec
CONSTANTS
  alice = alice
  bob = bob
  a1 = a1
  a2 = a2
  b1 = b1
  NoConn = NoConn
  User = {alice, bob}
  Conn = {a1, b1}
  Single = {}
  Owner <- OwnerPair
  CoMember <- FriendsPair
  Rpc = {"push", "echo"}
  SendCap = 1
  MaxRpc <- MaxRpcPair
CHECK_DEADLOCK FALSE
PROPERTIES GoneIsRemovedOrStuck PushEnds
