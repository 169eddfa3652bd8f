---------------------------- MODULE MCSettlement ----------------------------
(* Settlement for TLC: two accounts and the few bets that meet each other on *)
(* a wallet, on a key (a retry, and a reuse with another stake) or both.     *)
EXTENDS Settlement

CONSTANTS alice, bob, k1, k2

Bet(u, k, side, amount) == [user |-> u, key |-> k, side |-> side, amount |-> amount]

MCUsers  == {alice, bob}
MCKeys   == {k1, k2}

\* With a deposit of 3, alice can afford both her bets and bob only one of his.
MCOffers == { Bet(alice, k1, "DRAGON", 2), Bet(alice, k2, "TIE", 1),
              Bet(bob, k1, "DRAGON", 3),   Bet(bob, k2, "TIGER", 1) }
=============================================================================
