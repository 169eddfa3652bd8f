SPECIFICATION Spec
CONSTANTS
    Parts = {"rooms", "lobby", "round_view", "config", "fairness", "fairness_uniform", "realtime", "engine", "contention"}
    Off = Off
    None = None
    Null = Null
    Unset = Unset
    Garbled = Garbled
    SeatCalls = {"p1", "p2"}
    Guests = {"host", "bob", "carol"}
    Host = "host"
    MaxPlayers = 2
    TTL = 2
    MaxCalls = 4
    MaxDeaths = 1
    Makers = {"ann", "bob"}
    Codes = {"c1", "c2"}
    MaxTries = 2
    MaxRooms = 2
    Viewers = {"u1", "u2"}
    RoundOutcomes = {"DRAGON", "TIE"}
    Betting = 2
    Drawing = 1
    MaxRounds = 2
    TunedRooms = {"r1"}
    Players = {"p1"}
    Tuned = {"game.min_bet", "game.max_bet"}
    TunedCoins = {0, 1, 2, 4}
    EnvMin = 1
    EnvMax = 3
    Signals = {"SIGTERM", "SIGINT"}
    Rooms = {"r1", "r2", "r3"}
    Users = {"u1", "u2", "u3"}
    Winners <- Ring
    Api = "api"
    MaxStakes <- OneStake
    MaxFaults = 1
INVARIANTS TypeOK RoomRulesKept OutcomesFair PaidOncePerRoom
PROPERTIES NothingTakenBack
CHECK_DEADLOCK FALSE
