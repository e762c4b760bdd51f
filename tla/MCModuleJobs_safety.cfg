SPECIFICATION Spec
CONSTANTS
    m1 = m1
    r1 = r1
    Modules = {m1}
    Remote = {}
    HasService = {m1}
    HasTasks = {m1}
    Jobs = {1, 2}
    Reqs = {r1}
    Ops = {"install", "uninstall", "enable", "disable"}
    RecoverLimit = 100
    MaxCrashes = 1
INVARIANTS
    TypeOK
PROPERTIES
    SettledStays
CONSTRAINT RetryApart
CHECK_DEADLOCK FALSE
