------------------------------ MODULE RoundView ------------------------------
(***************************************************************************)
(* What the API tells of the rounds of one room: GameService.getRound,     *)
(* getCurrentRound, getHistory and the toRoundDto they share, and the      *)
(* public FairnessService.verifyRound, over the rows the engine writes.    *)
(* The engine is taken at its best here, one process that advances the     *)
(* room on time; Rounds and Settlement have what else it does.  History is *)
(* one page; between two rounds the engine may wait.  The column           *)
(* requireRoom asks for is taken to exist, as in Rooms.                    *)
(***************************************************************************)
EXTENDS Integers, Sequences, FiniteSets

CONSTANTS
    Users,
    Outcomes,
    Null,       \* a column or a field without a value
    Betting,    \* the phases of a round, in ticks
    Drawing,
    MaxRounds   \* bound: rounds of the room

RoundViewAssumption ==
    /\ Null \notin Outcomes \cup Nat /\ Outcomes # {}
    /\ Betting \in Nat \ {0} /\ Drawing \in Nat \ {0}
    /\ MaxRounds \in Nat

VARIABLES
    age,      \* how long the phase of the newest round has lasted
    rounds,   \* the rows of the room, oldest first
    known,    \* round -> the fields some round answer has shown
    proved,   \* round -> the fields some fairness answer has shown
    answer,   \* the round answer of the last step, or Null
    history   \* user -> the rounds of the last history answered

vars == <<age, rounds, known, proved, answer, history>>

\* The columns an answer is made from; the cards stand for both.  The engine writes
\* the seed when it opens the round.
NewRound == [state |-> "BETTING", endedAt |-> Null, seed |-> "seed",
             cards |-> Null, outcome |-> Null, bets |-> {}]

Live    == {"BETTING", "DRAWING"}
Current == {r \in DOMAIN rounds : rounds[r].state \in Live}

-----------------------------------------------------------------------------
\* fault: what is drawn counts as settled
SettledEarly(round) == round.state \in {"SETTLED", "DRAWING"}

Settled(round) == round.state = "SETTLED"
Drawn(round)   == Settled(round) \/ round.state = "DRAWING"

RemainingMs(round) ==
    IF round.state = "BETTING" /\ round.endedAt # Null THEN round.endedAt ELSE Null

\* The answer withholds a seed that is in the row.
ToRoundDto(r) ==
    LET round == rounds[r]
    IN [id |-> r, state |-> round.state,
        seed    |-> IF Settled(round) THEN round.seed ELSE Null,
        cards   |-> IF Drawn(round) THEN round.cards ELSE Null,
        outcome |-> IF Settled(round) THEN round.outcome ELSE Null,
        remainingMs |-> RemainingMs(round)]

Shown(dto) == {f \in {"seed", "cards", "outcome"} : dto[f] # Null}

Init ==
    /\ age = 0 /\ rounds = <<>>
    /\ known = [r \in 1 .. MaxRounds |-> {}] /\ proved = known
    /\ answer = Null /\ history = [u \in Users |-> {}]

(* The engine and the players.                                             *)

OpenRound ==
    /\ Current = {} /\ Len(rounds) < MaxRounds
    /\ rounds' = Append(rounds, NewRound)
    /\ age' = 0 /\ answer' = Null
    /\ UNCHANGED <<known, history, proved>>

\* fault: bettingEndedAt is not written.
BeginDrawingOpen(r) ==
    /\ rounds[r].state = "BETTING" /\ age >= Betting
    /\ rounds' = [rounds EXCEPT ![r].state = "DRAWING"]
    /\ age' = 0 /\ answer' = Null
    /\ UNCHANGED <<known, history, proved>>

\* bettingEndedAt is written, with the time it is, when betting ends.
BeginDrawing(r) ==
    /\ rounds[r].state = "BETTING" /\ age >= Betting
    /\ rounds' = [rounds EXCEPT ![r].state = "DRAWING", ![r].endedAt = 0]
    /\ age' = 0 /\ answer' = Null
    /\ UNCHANGED <<known, history, proved>>

SettleRound(r) ==
    /\ rounds[r].state = "DRAWING" /\ age >= Drawing
    /\ \E o \in Outcomes :
          rounds' = [rounds EXCEPT ![r].state = "SETTLED", ![r].cards = "cards", ![r].outcome = o]
    /\ answer' = Null
    /\ UNCHANGED <<age, known, history, proved>>

PlaceBet(u, r) ==
    /\ rounds[r].state = "BETTING" /\ u \notin rounds[r].bets
    /\ rounds' = [rounds EXCEPT ![r].bets = @ \cup {u}]
    /\ answer' = Null
    /\ UNCHANGED <<age, known, history, proved>>

Tick ==
    /\ Current # {} /\ age < Betting + Drawing
    /\ age' = age + 1 /\ answer' = Null
    /\ UNCHANGED <<rounds, known, history, proved>>

(* The API.                                                                *)

Tell(r) ==
    /\ answer' = ToRoundDto(r)
    /\ known' = [known EXCEPT ![r] = @ \cup Shown(ToRoundDto(r))]

GetRound(r) ==
    /\ Tell(r)
    /\ UNCHANGED <<age, rounds, history, proved>>

\* The live round of the highest number.
GetCurrentRound ==
    /\ \E r \in Current : (\A s \in Current : s <= r) /\ Tell(r)
    /\ UNCHANGED <<age, rounds, history, proved>>

\* The settled rounds the user took part in.
HistoryOf(u) == {r \in DOMAIN rounds : Settled(rounds[r]) /\ u \in rounds[r].bets}

GetHistory(u) ==
    /\ history' = [history EXCEPT ![u] = HistoryOf(u)]
    /\ known' = [r \in DOMAIN known |->
                    known[r] \cup IF r \in HistoryOf(u) THEN Shown(ToRoundDto(r)) ELSE {}]
    /\ answer' = Null
    /\ UNCHANGED <<age, rounds, proved>>

\* Who asks for the proof of a round is shown the columns that are written and, if
\* there is a seed, what it deals, whatever the state.
Proof(round) ==
    {f \in {"seed", "cards", "outcome"} : round[f] # Null}
        \cup IF round.seed # Null THEN {"recomputed"} ELSE {}

VerifyRound(r) ==
    /\ proved' = [proved EXCEPT ![r] = @ \cup Proof(rounds[r])]
    /\ answer' = Null
    /\ UNCHANGED <<age, rounds, known, history>>

Engine == OpenRound \/ \E r \in DOMAIN rounds : BeginDrawing(r) \/ SettleRound(r)

Next ==
    \/ Engine \/ Tick \/ GetCurrentRound
    \/ \E r \in DOMAIN rounds, u \in Users : PlaceBet(u, r)
    \/ \E r \in DOMAIN rounds : GetRound(r) \/ VerifyRound(r)
    \/ \E u \in Users : GetHistory(u)

Spec == Init /\ [][Next]_vars

\* The engine's timer keeps firing, and a client that follows a round asks again.
FairSpec ==
    /\ Spec /\ WF_vars(Engine) /\ WF_vars(Tick)
    /\ \A r \in 1 .. MaxRounds : WF_vars(r \in DOMAIN rounds /\ GetRound(r))

-----------------------------------------------------------------------------
TypeOK ==
    /\ age \in 0 .. Betting + Drawing /\ Len(rounds) <= MaxRounds
    /\ \A r \in DOMAIN rounds :
          /\ rounds[r].state \in Live \cup {"SETTLED"}
          /\ (rounds[r].endedAt = Null) = (rounds[r].state = "BETTING")
          /\ rounds[r].bets \subseteq Users
    /\ \A r \in Current : r = Len(rounds)
    /\ \A u \in Users : history[u] \subseteq DOMAIN rounds

\* "Cards and seed are withheld until the round has settled" (game.service.ts 420): no
\* round answer has shown one of a round that is not, and no fairness answer has shown
\* what was drawn.  The seed and what it deals, fairness answers do show.
RoundsWithhold ==
    \A r \in DOMAIN rounds : rounds[r].state # "SETTLED" =>
        known[r] = {} /\ proved[r] \subseteq {"seed", "recomputed"}

\* "`serverSeedHash` published before the round; `serverSeed` revealed after"
\* (docs/SECURITY.md 33): no answer of any of the four queries has shown the seed of a
\* round that is not settled.  Refuted by verifyRound.
SeedWithheld ==
    \A r \in DOMAIN rounds : "seed" \in known[r] \cup proved[r] => rounds[r].state = "SETTLED"

\* A round that a player was shown in his history is in every later one, and it is
\* one he has bet on (game.service.ts 609-612).
HistoryKept ==
    \A u \in Users :
        /\ history[u] \subseteq history'[u]
        /\ \A r \in history'[u] : u \in rounds[r].bets

\* A client that keeps asking for a round learns its outcome and can check its seed.
OutcomeComesOut ==
    \A r \in 1 .. MaxRounds :
        (r \in DOMAIN rounds) ~> ({"seed", "cards", "outcome"} \subseteq known[r])

\* remainingMs: "Milliseconds left in the betting window" (game.dto.ts 195).
CountdownShown ==
    answer # Null /\ answer.state = "BETTING" => answer.remainingMs # Null
=============================================================================
