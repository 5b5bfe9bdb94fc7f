SPECIFICATION FairSpec
CONSTANTS
  Plan <- StalePlan
  Threads <- StaleThreads
  CtlThreads <- NoThreads
  Process <- NoProcess
  Calls <- StaleCalls
  MaxCalls <- StaleMaxCalls
  APIServers <- MCAPIServers
  Keys <- MCKeys
  TypeOf <- MCTypeOf
  VolatileKeys = {}
  Reconcilers = {"reconcile"}
  Objects = {"o0", "o1", "o2"}
  EmptyObject = "o0"
  StateChCap = 2
INVARIANTS OneReleasePerHandler PausedBehindFlag
PROPERTIES ActionsReturn ResumedThreadsGoOn
CHECK_DEADLOCK FALSE
