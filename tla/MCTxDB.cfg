SPECIFICATION Spec
CONSTANTS
  v1 = v1
  v2 = v2
  Key <- MCKey
  Value <- MCValue
  Handle = {h1, h2}
  NotFound = NotFound
  Untouched = Untouched
  VersionKey = "version"
  DatabaseVersion = v1
  OldVersion = {v2}
  MaxBatch = 2
INVARIANT ReadsAgree
PROPERTY ImplementsStore
