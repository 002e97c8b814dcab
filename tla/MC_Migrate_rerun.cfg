CONSTANTS
    Builds = {3}
    MaxStarts = 3
    VersionWriteFails = FALSE

SPECIFICATION Spec

INVARIANT AppliedOnce
