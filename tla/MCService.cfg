SPECIFICATION ServiceSpec
CONSTANTS
  User = {alice, bob}
  Room = {lobby}
  Request = {q1, q2, q3, q4}
  Seeded = {alice}
  Nobody = Nobody
  MayFail = TRUE
  broker = broker
  migrate = migrate
  Process = {broker, migrate}
  MigrateOnly = {migrate}
  Migration = 3
  OnceOnly = {1}
  Earlier = {1}
  MaxStart = 3
SYMMETRY AnyRequest
CHECK_DEADLOCK FALSE
INVARIANTS TokensOfHolder ChallengesSpent ServesWholeSchema StoppedForCause
           WholeMembers
PROPERTY ImplementsStanding
