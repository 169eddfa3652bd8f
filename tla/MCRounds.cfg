SPECIFICATION FairSpec
CONSTANTS
    Replicas = {r1, r2, r3}
    Betting = 3
    Drawing = 2
    Result = 2
    LockTtl = 3
    Stalls = FALSE
    None = none
    Gone = gone
    MaxRounds = 3
    MaxFaults = 3
INVARIANTS OneReplicaActs OneLiveRound EventsTrue
PROPERTIES PhasesLast SettledIsFinal RoundsGoOn
