SPECIFICATION Spec
CONSTANTS
    Procs = {p1, p2}
    Installed = "v1"
    Tags = {"v2"}
    Count = 3
    Source <- Sources
    Required = {1}
    Brought <- Foreign
    Odd = Odd
    Domains = {"d1"}
    Good = {"v1"}
    Bad = {"bad"}
    Values = {"u", "v"}
    Absent = Absent
    Cut = Cut
    None = None
    MaxTx = 2
    MaxEdits = 1
    MaxOps = 2
INVARIANTS
    UpdateIsSound
    RestoreIsSound
    

    
SYMMETRY Swap
CHECK_DEADLOCK FALSE
