CONSTANTS
    good = good
    poison = poison
    narrow = narrow
    wide = wide
    Task <- MCTask
    Worker <- MCWorker
    BatchSize <- MCBatchSize
    Poison <- MCPoison
SPECIFICATION FairSpec
INVARIANTS
    TypeOK
    DisjointUnlessLate
PROPERTIES
    QueueSpec
    ClaimsInTurn
    TasksEnd
    NeverGivenUp
CHECK_DEADLOCK FALSE
