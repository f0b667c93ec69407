CONSTANTS
  Deployment <- MCDeployment
  MaxSignals = 2
  Settings <- MCSettings
  LastDay = 2
  Environments = {"development", "production"}
  Overrides = {"none", "https", "http", "garbage"}

SPECIFICATION MCSpec


INVARIANT UnavailableIsReported

\* Processes end, and a job is done with.
CHECK_DEADLOCK FALSE
