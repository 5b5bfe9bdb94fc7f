SPECIFICATION Spec
CONSTANTS
  Plan <- ReadsPlan
  Threads <- ReadsThreads
  CtlThreads <- ReadsThreads
  Process <- ReadsProcess
  Calls <- ReadsCalls
  MaxCalls <- ReadsMaxCalls
  APIServers <- MCAPIServers
  Keys <- MCKeys
  TypeOf <- MCTypeOf
  VolatileKeys = {"sts/b"}
  Reconcilers = {"reconcile"}
  Objects = {"o0", "o1", "o2"}
  EmptyObject = "o0"
  StateChCap = 2
INVARIANTS NoReadWhilePaused OccurrencesExact PrevStateIsLatest ExitsExplained
CHECK_DEADLOCK FALSE
