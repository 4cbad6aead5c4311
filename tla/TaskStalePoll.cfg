SPECIFICATION Spec
CONSTANTS
  Handler = {h1, h2}
  Task = {t1}
  Recon = {t1}
  LongTask = {}
  Asset = {a1}
  Fault = {}
  NoTask = NoTask
  NoRef = NoRef
  MaxJobs = 1
  MaxTries = 2
  MaxFaults = 0
PROPERTIES ClosedStaysClosed
CHECK_DEADLOCK FALSE
