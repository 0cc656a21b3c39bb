SPECIFICATION Spec
CONSTANTS
  alice = alice
  bob = bob
  a1 = a1
  a2 = a2
  b1 = b1
  NoConn = NoConn
  User = {alice}
  Conn = {a1, a2}
  Single = {q1}
  Owner <- OwnerTwice
  CoMember <- AloneTwice
  Rpc = {"echo", "quiet"}
  SendCap = 2
  MaxRpc <- MaxRpcTwice
CHECK_DEADLOCK FALSE
INVARIANTS TypeOK RegistryExact RefusedIsSilent EchoLossless
PROPERTY ImplementsPresence
