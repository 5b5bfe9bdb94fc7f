SPECIFICATION FairSpec
CONSTANTS
  Plan <- MixedPlan
  Threads <- MixedThreads
  CtlThreads <- MixedThreads
  Process <- MixedProcess
  Calls <- MixedCalls
  MaxCalls <- MixedMaxCalls
  APIServers <- MCAPIServers
  Keys <- MCKeys
  TypeOf <- MCTypeOf
  VolatileKeys = {}
  Reconcilers = {"reconcile"}
  Objects = {"o0", "o1", "o2"}
  EmptyObject = "o0"
  StateChCap = 2
INVARIANT ActionsInOrder
PROPERTIES HandlersReturn TimeoutsAreMet GraphsAreTriggered
CHECK_DEADLOCK FALSE
