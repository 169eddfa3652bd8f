SPECIFICATION Spec
CONSTANTS
    Replicas = {r1, r2}
    Betting = 2
    Drawing = 1
    Result = 1
    LockTtl = 2
    Stalls = TRUE
    None = none
    Gone = gone
    MaxRounds = 2
    MaxFaults = 2
INVARIANT OneLiveRound
