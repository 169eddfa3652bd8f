SPECIFICATION FairSpec
CONSTANTS
    alice = alice
    bob = bob
    k1 = k1
    k2 = k2
    Players = {p1, p2}
    Settlers = {s1, s2}
    None = none
    Deposit = 3
    MaxCalls = 1
    MaxFaults = 0
    Users <- MCUsers
    Keys <- MCKeys
    Offers <- MCOffers
PROPERTY NoBetLeftUnresolved
CHECK_DEADLOCK FALSE
