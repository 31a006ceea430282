\* A run that waited for the user in its first step dies in a later one.
CONSTANTS
    Steps = 2
    Asks = {1}
    MaxCheckpoints = 12
    MaxCrashes = 1
SPECIFICATION Spec
INVARIANTS
    OncePerStep
CHECK_DEADLOCK FALSE
