------------------------------ MODULE Analytics ------------------------------
(***************************************************************************)
(* What the analytics say of one player's rounds: the web client's         *)
(* lib/analytics.ts over the rounds it has recorded, and the API's         *)
(* AnalyticsService over the player's bets.                                *)
(*                                                                         *)
(* Lists are newest first.                                                 *)
(***************************************************************************)
EXTENDS Integers, Sequences, FiniteSets, SequencesExt, FiniteSetsExt

CONSTANTS Rooms,
          BetsPerRound,   \* bound: bets of the player on one round
          Rounds,         \* bound: rounds settled
          Window          \* rounds asked for

AnalyticsAssumption ==
    /\ BetsPerRound \in Nat \ {0} /\ Rounds \in Nat /\ Window \in Nat \ {0}

Outcomes == {"DRAGON", "TIGER", "TIE"}

VARIABLES
    bets,    \* the player's bets: room, round, the outcome once settled, or "PLACED"
    played,  \* the rounds the player was there for: outcome and whether staked
    current  \* per room, the number of its round

vars == <<bets, played, current>>

First(s, n) == SubSeq(s, 1, IF Len(s) < n THEN Len(s) ELSE n)
Count(s, o) == Cardinality({i \in DOMAIN s : s[i] = o})

-----------------------------------------------------------------------------
\* computeStreak: the first run, and one pass that keeps the longest.

Longer(best, side, length) ==
    IF length > best.length THEN [side |-> side, length |-> length] ELSE best

ComputeStreak(history) ==
    LET step(acc, o) ==
            LET n == IF o = acc.side THEN acc.run + 1 ELSE 1
            IN [side |-> o, run |-> n, best |-> Longer(acc.best, o, n)]
        start == [side |-> history[1], run |-> 1, best |-> [side |-> history[1], length |-> 1]]
        other == SelectInSeq(history, LAMBDA o : o # history[1])
        length == IF other = 0 THEN Len(history) ELSE other - 1
    IN [current |-> IF length > 1 THEN length ELSE 0,
        longest |-> FoldLeft(step, start, Tail(history)).best]

-----------------------------------------------------------------------------
\* _computeSummary: the newest bets that are settled, and the outcomes of their
\* rounds.

Settled == First(SelectSeq(bets, LAMBDA b : b.outcome # "PLACED"), Window)

ApiOutcomes == [i \in DOMAIN Settled |-> Settled[i].outcome]
ApiSummary == [o \in Outcomes |-> Count(ApiOutcomes, o)]

\* getStreaks: a run is written down when it ends, and the last one after the loop.

ApiStreaks(outcomes) ==
    LET step(acc, o) ==
            IF o = acc.side THEN [acc EXCEPT !.run = @ + 1]
            ELSE [side |-> o, run |-> 1,
                  longest |-> [acc.longest EXCEPT ![acc.side] = IF acc.run > @ THEN acc.run ELSE @]]
        start == [side |-> outcomes[1], run |-> 1, longest |-> [o \in Outcomes |-> 0]]
        end == FoldLeft(step, start, Tail(outcomes))
    IN [end.longest EXCEPT ![end.side] = IF end.run > @ THEN end.run ELSE @]

Init ==
    /\ bets = <<>> /\ played = <<>> /\ current = [r \in Rooms |-> 1]

On(r) == {i \in DOMAIN bets : bets[i].room = r /\ bets[i].round = current[r]}

PlaceBet(r) ==
    /\ Cardinality(On(r)) < BetsPerRound
    /\ bets' = <<[room |-> r, round |-> current[r], outcome |-> "PLACED"]>> \o bets
    /\ UNCHANGED <<played, current>>

SettleRound(r, o) ==
    /\ Len(played) < Rounds
    /\ bets' = [i \in DOMAIN bets |-> IF i \in On(r) THEN [bets[i] EXCEPT !.outcome = o] ELSE bets[i]]
    /\ played' = <<[outcome |-> o, staked |-> On(r) # {}]>> \o played
    /\ current' = [current EXCEPT ![r] = @ + 1]

Next ==
    \E r \in Rooms : PlaceBet(r) \/ \E o \in Outcomes : SettleRound(r, o)

Spec == Init /\ [][Next]_vars
-----------------------------------------------------------------------------
\* The stretches of a list that are all the same.
Runs(s) ==
    {r \in (DOMAIN s) \X (DOMAIN s) :
        r[1] <= r[2] /\ \A i \in r[1] .. r[2] : s[i] = s[r[1]]}
LongestRun(s, sides) ==
    Max({0} \cup {r[2] - r[1] + 1 : r \in {q \in Runs(s) : s[q[1]] \in sides}})

History == [i \in DOMAIN First(played, Window) |-> played[i].outcome]

\* computeStreak against its definition: the longest stretch of equal outcomes, one
\* of those that are as long, and the first stretch unless it is a single round.
StreakRight ==
    History # <<>> =>
        LET c == ComputeStreak(History)
            front == Max({r[2] : r \in {q \in Runs(History) : q[1] = 1}})
        IN /\ c.longest.length = LongestRun(History, Outcomes)
           /\ c.longest.length = LongestRun(History, {c.longest.side})
           /\ c.current = (IF front > 1 THEN front ELSE 0)

\* getStreaks against its definition, for every side.
ApiStreaksRight ==
    ApiOutcomes # <<>> =>
        \A o \in Outcomes : ApiStreaks(ApiOutcomes)[o] = LongestRun(ApiOutcomes, {o})

\* The client counts the rounds it was there for, the API the player's bets: with one
\* bet a round they say the same of the rounds that were staked on.
StakedHistory ==
    LET staked == SelectSeq(played, LAMBDA p : p.staked) IN
    [i \in DOMAIN First(staked, Window) |-> staked[i].outcome]
SameSummary == \A o \in Outcomes : ApiSummary[o] = Count(StakedHistory, o)

\* "Rolling frequency (last N settled rounds)" (analytics.service.ts 36)
EachRoundOnce == SameSummary
=============================================================================
