SPECIFICATION FairSpec
CONSTANTS
    Servers = {v1}
    Sessions = {1, 2}
    ServerOf <- OneServer
    Capable = {1}
    Calls = {c1}
    Subs = {u1}
    None = None
    SendCap = 1
    ChunkCap = 1
    OutCap = 1
    UpCap = 1
    DownCap = 1
    MaxChunks = 1
PROPERTIES
    EveryDispatchReturns
    DeletedServerLeaves
    ClosedSessionEnds
CONSTRAINT ThreeApart
CHECK_DEADLOCK FALSE
