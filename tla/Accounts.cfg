SPECIFICATION MCSpec
CONSTANTS
  Users = {ann, bob}
  Sessions = {s1, s2, s3}
  Requests = {r1, r2}
  NoUser = NoUser
  NoSession = NoSession
  MaxAttempts = 2
  MaxFailures = 4
  MailAttempts = 2
  Secrets = {k1, k2}
  Clients = {c1, c2}
  NoSecret = NoSecret
INVARIANTS
  RotationIsExclusive
  AdminRemains
  SocketFallsSilent
  LockoutBounded
  NoMailOnceVerified
PROPERTY SecretStays
SYMMETRY MCSymmetry
CHECK_DEADLOCK FALSE
