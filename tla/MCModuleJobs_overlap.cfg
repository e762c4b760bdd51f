SPECIFICATION Spec
CONSTANTS
    m1 = m1
    r1 = r1
    Modules = {m1}
    Remote = {}
    HasService = {m1}
    HasTasks = {}
    Jobs = {1, 2}
    Reqs = {r1}
    Ops = {"install", "uninstall"}
    RecoverLimit = 100
    MaxCrashes = 0
INVARIANTS
    OneOperation
CHECK_DEADLOCK FALSE
