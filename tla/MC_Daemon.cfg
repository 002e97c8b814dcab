CONSTANTS
    dht = dht
    stats = stats
    updates = updates
    TimerOrder <- MCTimerOrder
    MaxObj = 6
    Builds = {2, 3}
    MaxStarts = 4
    VersionWriteFails = TRUE

SPECIFICATION Spec

INVARIANT TypeOK
INVARIANT VersionBelowApplied
INVARIANT StartsOnlyMigrated
INVARIANT NoCallbackOnDeadTimer
PROPERTY TimersKeepFiring
