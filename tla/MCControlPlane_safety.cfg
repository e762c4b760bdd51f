SPECIFICATION Spec
CONSTANTS
    Servers = {v1}
    Sessions = {1, 2}
    ServerOf <- OneServer
    Capable = {1}
    Calls = {c1, c2}
    Subs = {u1}
    None = None
    SendCap = 1
    ChunkCap = 1
    OutCap = 1
    UpCap = 1
    DownCap = 1
    MaxChunks = 2
INVARIANTS
    TypeOK
    RegisteredIsOpen
    LiveIsRegistered
    NoLostWaiter
    NoOrphanWaiter
    OutcomeTruthful
    NoOrphanStream
    StreamIntact
CONSTRAINT AtMostThree
SYMMETRY Interchangeable
CHECK_DEADLOCK FALSE
