SPECIFICATION FairSpec
CONSTANTS
    alice = alice
    bob = bob
    carol = carol
    k1 = k1
    k2 = k2
    BONUS = BONUS
    BET = BET
    WIN = WIN
    Procs = {p1, p2, p3}
    None = none
    MaxCalls = 4
    Users <- MCUsers
    Wallets <- MCWallets
    Keys <- MCKeys
    Types <- MCTypes
    Requests <- MCRequests
INVARIANTS TypeOK Money AnswersTrue
PROPERTIES AppendOnly ImplementsAtomicLedger EveryCallEnds
CHECK_DEADLOCK FALSE
