\* Two refreshes with one token.
SPECIFICATION Spec
CONSTANTS
    Parts = {"sessions_reuse"}
    Off = Off
    None = None
    Null = Null
    Configs <- Restarts
    Margin = 1
    PrincipalTtl = 1
    MaxTokens = 2
    MaxTime = 4
    Procs = {"p1", "p2"}
    UserIds = {1, 2}
    Emails = {"e1"}
    Mobiles = {"m1"}
    Channels = {"email", "mobile"}
    MaxAttempts = 1
    MaxIssues = 2
    MaxFaults = 1
    Resetters = {"p1", "p2"}
    MaxResetAttempts = 2
    MaxResetIssues = 2
    MaxGuesses = 5
    Editors = {"c1", "c2"}
    Values = {1, 2}
    Durations = {1, 2}
    MaxDays = 2
    Joiners = {"p1", "p2", "p3"}
    Players = {"alice", "bob"}
    Cups = {"cup", "open_day"}
    FreeCups = {"open_day"}
    Seats <- SeatsEach
    KeysFor <- KeyEach
    MaxDeaths = 2
    AdminCalls = {"suspend", "credit", "set", "sneak"}
    Kind <- AdminKind
    Value <- AdminValue
    AdminValues = {"SUSPENDED", "100", "on", "off"}
    AdminRoles <- AdminRole
    Tries <- AdminTries
    ApiCalls = {"c1"}
    Fields = {"email"}
    Requests = {"q1", "q2"}
    Commands = 1
    MaxOutages = 1
INVARIANT TokenUsedOnce
CHECK_DEADLOCK FALSE
