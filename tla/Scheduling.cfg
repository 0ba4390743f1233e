CONSTANTS
    p1 = p1  p2 = p2  e1 = e1  e2 = e2
    Places = {p1, p2}
    ECs = {e1, e2}
    Null = Null
    Home = p1
    Scenarios <- MCScenarios
SPECIFICATION FairSpec
INVARIANTS StopsWhenAnswered RegistersExclusive BasesReloaded NoLostEvent NoSleepWhileReady
PROPERTIES RunsEventually
CHECK_DEADLOCK FALSE
