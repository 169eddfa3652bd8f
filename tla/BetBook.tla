------------------------------ MODULE BetBook -------------------------------
(***************************************************************************)
(* What a round promises its players: a bet and its stake are taken in one *)
(* step, and one step settles the round, gives its bets their results and  *)
(* pays them.  It does not promise that every bet is among them.           *)
(* Settlement implements it.                                               *)
(***************************************************************************)
EXTENDS Integers

CONSTANTS Users, Offers, Deposit,
          Sides, Verdict(_, _), Payout(_, _, _),
          Total(_, _)   \* the sum of a function over a set

VARIABLES state,   \* of the round
          draw,    \* what its seed will show
          bets,    \* by user and key
          balance  \* coins of each user

vars == <<state, draw, bets, balance>>

Init ==
    /\ state = "BETTING" /\ draw \in Sides
    /\ bets = <<>>
    /\ balance = [u \in Users |-> Deposit]

Place(o) ==
    LET id == <<o.user, o.key>> IN
    /\ id \notin DOMAIN bets
    /\ balance[o.user] >= o.amount
    /\ bets' = [i \in DOMAIN bets \cup {id} |->
                   IF i = id THEN [side |-> o.side, amount |-> o.amount,
                                   status |-> "PLACED", payout |-> 0]
                             ELSE bets[i]]
    /\ balance' = [balance EXCEPT ![o.user] = @ - o.amount]
    /\ UNCHANGED <<state, draw>>

\* Betting closes, and again when a replica stalled.
Close ==
    /\ state' = "DRAWING"
    /\ UNCHANGED <<draw, bets, balance>>

Open == {id \in DOMAIN bets : bets[id].status = "PLACED"}

Due(id) == Payout(bets[id].side, bets[id].amount, draw)
Dues    == [id \in DOMAIN bets |-> Due(id)]

Settle(S) ==
    /\ state = "DRAWING"
    /\ state' = "SETTLED"
    /\ bets' = [id \in DOMAIN bets |->
                   IF id \in S THEN [bets[id] EXCEPT !.status = Verdict(bets[id].side, draw),
                                                     !.payout = Due(id)]
                               ELSE bets[id]]
    /\ balance' = [u \in Users |-> balance[u] + Total(Dues, {id \in S : id[1] = u})]
    /\ UNCHANGED draw

Next == Close \/ (\E o \in Offers : Place(o)) \/ (\E S \in SUBSET Open : Settle(S))

Spec == Init /\ [][Next]_vars
=============================================================================
