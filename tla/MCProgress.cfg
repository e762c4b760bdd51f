SPECIFICATION Spec
CONSTANTS
    None = None
    Malformed = Malformed
    Calls <- ThreeCalls
    Mixes <- GuardMixes
    Reason <- SharedReason
    MaxTime = 1
    Latest = 3
    LegacyAt = {0, 1, 2}
    MaxGens = 6
    MaxCrashes = 2
    MaxLost = 1
INVARIANTS
    
    StartsWhole
    
PROPERTIES
    
    
    OpenEndsAreClosed
CHECK_DEADLOCK FALSE
