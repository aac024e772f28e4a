SPECIFICATION FairSpec
CONSTANTS
  r1 = r1
  r2 = r2
  w1 = w1
  w2 = w2
  NoRequest = NoRequest
  Requests <- MCRequests
  Workers = {w1, w2}
  CreatedAt <- MCCreatedAt
  ExpiresAt <- MCExpiresAt
  LeaseTime = 1
  MaxAttempts = 2
  RetryDelay <- MCRetryDelay
  QueueLimit = 1
  CleanupAge = 1
  MaxTime = 2
  MaxCrashes = 1
INVARIANTS
  TypeOK
  OneCommitter
  RetriesCovered
PROPERTIES
  PublishedClockMonotone
  KeepsLifecycle
  EverySettled
