SPECIFICATION Spec
CONSTANTS
    alice = alice
    bob = bob
    k1 = k1
    k2 = k2
    Players = {p1, p2}
    Settlers = {s1, s2}
    None = none
    Deposit = 3
    MaxCalls = 3
    MaxFaults = 1
    Users <- MCUsers
    Keys <- MCKeys
    Offers <- MCOffers
INVARIANTS TypeOK PaidExactly CoinsBalance
PROPERTIES ImplementsBetBook
CHECK_DEADLOCK FALSE
