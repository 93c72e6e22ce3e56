SPECIFICATION SessionsSpec
CONSTANTS
  Users = {ann, bob}
  Sessions = {s1, s2, s3}
  Requests = {r1, r2}
  NoUser = NoUser
  NoSession = NoSession
INVARIANT AccessOutlivesLogout
CHECK_DEADLOCK FALSE
