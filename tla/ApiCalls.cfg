SPECIFICATION FairSpec
CONSTANTS
    t1 = t1
    t2 = t2
    t3 = t3
    j1 = j1
    j2 = j2
    Tasks = {t1, t2, t3}
    Jobs = {j1, j2}
    Job <- TwoRuns
    Nodes <- AnyNode
    Limit = 1
    MaxAttempts = 2
    HttpTries = 2
    MaxLoops = 2
CHECK_DEADLOCK FALSE
INVARIANTS TypeOK NoSlotLost NoForeignLoop CallBudget
PROPERTIES KeepsContract TasksEnd
