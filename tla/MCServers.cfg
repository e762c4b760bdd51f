SPECIFICATION Spec
CONSTANTS
    a = a
    b = b
    u1 = u1
    u2 = u2
    None = None
    Servers = {"s1"}
    Machines = {a, b}
    Tasks = {1, 2}
    Batch = 1
    TokenTTL = 1
    CertTTL = 2
    WarnAfter = 0
    OffAfter = 1
    MaxTokens = 2
    MaxTime = 2
    Procs = {a, b}
    Users = {u1, u2}
    MaxSessions = 3
    MaxOps = 3
    MaxFaults = 1
INVARIANTS
    
    TasksAreKept
    
    AccountsAreKept
    
    
    
SYMMETRY Swap
CHECK_DEADLOCK FALSE
