SPECIFICATION MCSpec
CONSTANTS
  Contents <- MCContents
  Releases <- MCReleases
  Required <- MCRequired
  Untracked <- MCUntracked
  Runners = {p1, p2}
  NoRunner = NoRunner
  Slots = {s1, s2}
  Ids = {x1, x2}
  Secrets = {a, b}
  Keys = {k1, k2}
  Callers = {p1, p2}
  NoId = NoId
  NoCredentials = NoCredentials
  NoKey = NoKey
  MaxClosed = 2
  MinClosed = 1
  Refresh = 1
  Versions = {x1, x2}
  Tasks = {p1, p2}
  NoVersion = NoVersion
INVARIANTS
  SchemaMatchesRecord
  RowsDecryptable
  CredentialsInUseStay
  ForecastsAreFinal
  ModelsArePublished
SYMMETRY MCSymmetry
CHECK_DEADLOCK FALSE
