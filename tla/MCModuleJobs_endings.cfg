SPECIFICATION FairSpec
CONSTANTS
    m1 = m1
    m2 = m2
    r1 = r1
    Modules = {m1, m2}
    Remote = {m2}
    HasService = {m1}
    HasTasks = {m1, m2}
    Jobs = {1}
    Reqs = {r1}
    Ops = {"install", "uninstall"}
    RecoverLimit = 100
    MaxCrashes = 1
INVARIANTS
    NoZombieRow
PROPERTIES
    JobsSettle
    CanceledNotApplied
CHECK_DEADLOCK FALSE
