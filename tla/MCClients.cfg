SPECIFICATION Spec
CONSTANTS
    Parts = {"table_stays", "table_left", "screen", "auth_client", "console", "console_keys", "exclusion", "data_table", "data_table_kept", "code_entry", "sign_in", "estimate", "analytics", "toasts", "statement", "ages"}
    Off = Off
    None = None
INVARIANTS TypeOK TableTellsTheTruth SentAsMeant FiguresTrue
PROPERTIES StepsAsMeant
CHECK_DEADLOCK FALSE
