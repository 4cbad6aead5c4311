SPECIFICATION FairSpec
CONSTANTS
  Handler = {h1, h2}
  Task = {t1}
  Recon = {t1}
  LongTask = {t1}
  Asset = {a1}
  Fault = {"handler", "worker", "connection", "redis", "expiry"}
  NoTask = NoTask
  NoRef = NoRef
  MaxJobs = 1
  MaxTries = 2
  MaxFaults = 1
PROPERTIES KnownTasksClose
CHECK_DEADLOCK FALSE
