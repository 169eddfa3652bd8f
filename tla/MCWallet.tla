------------------------------ MODULE MCWallet ------------------------------
(* Wallet for TLC: two accounts with a wallet and one without, and the few  *)
(* requests that meet each other on a key, on a wallet or on both.          *)
EXTENDS Wallet

CONSTANTS alice, bob, carol, k1, k2, BONUS, BET, WIN

R(w, u, k, t, a) == [writer |-> w, user |-> u, key |-> k, type |-> t, amount |-> a]

MCUsers    == {alice, bob, carol}
MCWallets  == {alice, bob}
MCKeys     == {k1, k2}
MCTypes    == {BONUS, BET, WIN}

\* A bonus and a stake of one account under one key (a reuse), a stake under
\* another key, a payout of the engine, the same bonus of a second account under
\* the first account's key, and a movement of an account with no wallet.
MCRequests == { R("api", alice, k1, BONUS, 3), R("api", alice, k1, BET, -3),
                R("api", alice, k2, BET, -3),  R("engine", alice, k2, WIN, 4),
                R("api", bob, k1, BONUS, 3),   R("api", carol, k2, BONUS, 3) }
=============================================================================
