SPECIFICATION ConditionFairSpec
CONSTANTS
    c1 = c1
    c2 = c2
    yes = yes
    no = no
    Signallers = {c1, c2}
    Values = {yes, no}
    Value <- MCValue
    NoValue = none
    MaxRestarts = 1
    MaxFaults = 2
INVARIANTS
    AcceptedSignalStands

    
CHECK_DEADLOCK FALSE
