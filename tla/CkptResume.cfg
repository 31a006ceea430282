\* Three steps, the second and third ask the user; the worker dies up to three times.
CONSTANTS
    Steps = 3
    Asks = {2, 3}
    MaxCheckpoints = 22
    MaxCrashes = 3
SPECIFICATION Spec
INVARIANTS
    TypeOK
    EffectOncePerMessage
    PauseResumable
    StepsExact
CHECK_DEADLOCK FALSE
