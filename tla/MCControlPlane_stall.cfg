SPECIFICATION FairSpec
CONSTANTS
    Servers = {v1}
    Sessions = {1}
    ServerOf <- OneServer
    Capable = {1}
    Calls = {}
    Subs = {u1}
    None = None
    SendCap = 1
    ChunkCap = 1
    OutCap = 1
    UpCap = 1
    DownCap = 1
    MaxChunks = 2
PROPERTIES
    ReceiveLoopResumes
CHECK_DEADLOCK FALSE
