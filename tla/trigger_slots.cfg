SPECIFICATION FairSpec
CONSTANTS
    Triggers = {t1}
    Schedules <- MCSchedules
    Cap = 1
    MaxTime = 3
    MaxEdits = 1
    MaxCrashes = 1
    MaxFailures = 1
INVARIANTS
    
    CatchUpSparesIdle
PROPERTIES
    RegisteredSlotRuns
    JobsFollowRows
CHECK_DEADLOCK FALSE
