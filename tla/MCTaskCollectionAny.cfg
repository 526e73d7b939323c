SPECIFICATION Spec
CONSTANTS
    d1 = d1
    d2 = d2
    e = e
    v = v
    f = f
    g = g
    Tasks <- MCTasks
    Writers <- MCWriters
    Files <- MCFiles
    Target <- MCTarget
    Kind <- MCKind
    MaxRuns = 2
    MaxFailures = 1
    RestartPolicy = "any"
INVARIANT CountFits
CHECK_DEADLOCK FALSE
