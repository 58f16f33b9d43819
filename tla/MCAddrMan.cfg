SPECIFICATION Spec
CONSTANTS
  Service <- MCService
  HostOf <- MCHostOf
  Source <- MCSource
  NewBucket = {1, 2}
  TriedBucket = {1, 2}
  GetNewBucket <- MCGetNewBucket
  GetTriedBucket <- MCGetTriedBucket
  NewSize = 1
  TriedSize = 1
  MaxRef = 2
  GetAddrPct = 100
  GetAddrMax = 2
  MaxId = 5
INVARIANT Consistent
PROPERTIES
  ReloadKeeps
  NeverForgotten
