SPECIFICATION Spec
CONSTANTS
  Handler = {h1, h2}
  Task = {t1}
  Recon = {t1}
  LongTask = {}
  Asset = {a1}
  Fault = {"handler", "worker", "connection", "redis", "expiry"}
  NoTask = NoTask
  NoRef = NoRef
  MaxJobs = 1
  MaxTries = 2
  MaxFaults = 2
INVARIANTS JobIsRecorded ClosedRowHasEvidence OutcomeIsReal KillIsAudited
           OrphanWasForgotten AssetCopiesBounded
PROPERTY ImplementsLife
CHECK_DEADLOCK FALSE
