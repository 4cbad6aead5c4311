SPECIFICATION FairSpec
CONSTANTS
  Session = {s1, s2}
  Content <- MCContent
  Joined <- MCJoined
  Engagement = {e1, e2}
  GENESIS_HASH = GENESIS_HASH
  NoSession = NoSession
  TriggerDisabled = TRUE
  MaxBatch = 2
  MaxId = 3
INVARIANTS VerifyExact SingleWriter
PROPERTIES CommitsInIdOrder ImplementsLedger LockIsGranted
CHECK_DEADLOCK FALSE
