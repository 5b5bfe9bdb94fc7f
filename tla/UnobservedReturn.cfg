SPECIFICATION FairSpec
CONSTANTS
  Plan <- UnobservedPlan
  Threads <- UnobservedThreads
  CtlThreads <- UnobservedThreads
  Process <- UnobservedProcess
  Calls <- UnobservedCalls
  MaxCalls <- UnobservedMaxCalls
  APIServers <- MCAPIServers
  Keys <- MCKeys
  TypeOf <- MCTypeOf
  VolatileKeys = {}
  Reconcilers = {"reconcile"}
  Objects = {"o0", "o1", "o2"}
  EmptyObject = "o0"
  StateChCap = 2
PROPERTIES ActionsReturn
CHECK_DEADLOCK FALSE
