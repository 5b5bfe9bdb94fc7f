SPECIFICATION MCSpec
CONSTANTS
    TestPlans = {"p", "q"}
    MaxRuns = 4
    MaxKills = 1
    NoDir = NoDir
    MaxBuilds = 2
    NoTree = NoTree
    WorkLists <- MCWorkLists
    PollInterval = 2
    Delay = 1
    GracePeriod = 1
INVARIANTS NoStaleCluster OraclesOfOnePair ResultsSaved ImageOfMode VerdictIsExact SteadyConditionIsSeen
PROPERTIES RunEnds WorkloadEnds
CHECK_DEADLOCK FALSE
