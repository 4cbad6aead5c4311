SPECIFICATION Spec
CONSTANTS
  Handler = {h1}
  Task = {t1, t2}
  Recon = {t1, t2}
  LongTask = {t2}
  Asset = {a1}
  Fault = {"worker", "redis", "connection"}
  NoTask = NoTask
  NoRef = NoRef
  MaxJobs = 1
  MaxTries = 2
  MaxFaults = 1
INVARIANTS SubprocessesFitSlots
CHECK_DEADLOCK FALSE
