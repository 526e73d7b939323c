SPECIFICATION FairSpec
CONSTANTS
    d1 = d1
    d2 = d2
    e = e
    v = v
    f = f
    g = g
    Tasks <- MCTasks
    Writers <- MCWriters
    Files <- MCFiles
    Target <- MCTarget
    Kind <- MCKind
    MaxRuns = 3
    MaxFailures = 2
    RestartPolicy = "alone"
INVARIANTS DoneWhenAllThrough ResultIsTrue
PROPERTIES NothingReplacedUnasked EveryTaskReports
CHECK_DEADLOCK FALSE
