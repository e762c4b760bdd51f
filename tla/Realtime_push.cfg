SPECIFICATION Spec
CONSTANTS
    Clients = {c1, c2}
    Publishers = {"p"}
    Servers = {"local", "s1"}
    LocalID = "local"
    TicketTTL = 1
    SendCap = 1
    Keep = 1
    None = None
    MaxTime = 0
    MaxPolls = 0
    MaxEvents = 1
    MaxFaults = 0
INVARIANTS
    SiteChangeIsPushed
CHECK_DEADLOCK FALSE
