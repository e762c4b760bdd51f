SPECIFICATION Spec
CONSTANTS
    p1 = p1
    p2 = p2
    s1 = s1
    s2 = s2
    c1 = c1
    None = None
    Absent = Absent
    Down = Down
    Dir = Dir
    Empty = Empty
    Cut = Cut
INVARIANTS
    
    ReconcileRepairs
    
    CronIsSound
    FirewallIsSound
    
    PackagesAreSound
SYMMETRY Swap
CHECK_DEADLOCK FALSE
