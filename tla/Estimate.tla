------------------------------- MODULE Estimate -------------------------------
(***************************************************************************)
(* The estimate the analytics page shows: which side came up more often in *)
(* the last rounds, and how much is made of it.  Three pieces of code      *)
(* grade it: the web client (predictFromPlayedRounds), the API             *)
(* (getCurrentPrediction) and the shared contracts (confidenceForSample).  *)
(*                                                                         *)
(* A window of rounds is its counts: once it is full, a round drops the    *)
(* oldest one, which may be any of those counted.  Shares and gaps are     *)
(* fractions; where the code compares a double with a limit that the exact *)
(* fraction meets, rounding decides, and either answer is possible.        *)
(***************************************************************************)
EXTENDS Integers, FiniteSets, FiniteSetsExt

CONSTANTS Windows,      \* the rolling windows the page offers
          ApiWindow     \* rounds getCurrentPrediction looks at (50), whatever the page asks

EstimateAssumption == Windows \subseteq Nat \ {0} /\ ApiWindow \in Nat \ {0}

Outcomes == {"DRAGON", "TIGER", "TIE"}
NoSide == "none"

\* The labels, weakest first.
Labels == <<"No reliable signal", "Low confidence", "Moderate signal">>
Nothing == 1
Low == 2
Moderate == 3

VARIABLES
    window,    \* rounds asked for
    counts,    \* the outcomes of the last rounds
    estimate   \* what the card shows: a side, and the index of a label

vars == <<window, counts, estimate>>

Sample(c) == c["DRAGON"] + c["TIGER"] + c["TIE"]
Distance(a, b) == IF a > b THEN a - b ELSE b - a
Gap(c) == Distance(c["DRAGON"], c["TIGER"])   \* in rounds of the sample

-----------------------------------------------------------------------------
\* lib/analytics.ts: a lean needs ten rounds and a gap of 4%, the top label fifty
\* and more than 12%.
MinSample == 10
LabelSample == 25
ModerateSample == 50

Below(gap, n, percent) == 100 * gap < percent * n
Equal(gap, n, percent) == 100 * gap = percent * n

Leans(c) ==
    LET n == Sample(c)
        side == IF c["DRAGON"] > c["TIGER"] THEN "DRAGON" ELSE "TIGER"
    IN IF n < MinSample \/ Below(Gap(c), n, 4) THEN {NoSide}
       ELSE IF Equal(Gap(c), n, 4) THEN {NoSide, side}
       ELSE {side}

Grades(c, lean) ==
    LET n == Sample(c) IN
    IF lean = NoSide \/ n < LabelSample THEN {Nothing}
    ELSE IF n < ModerateSample \/ Below(Gap(c), n, 12) THEN {Low}
    ELSE IF Equal(Gap(c), n, 12) THEN {Low, Moderate}
    ELSE {Moderate}

Predictions(c) == {[side |-> s, label |-> l] : s \in Leans(c), l \in 1 .. 3}

\* predictFromPlayedRounds on the rounds c.
Predict(c) == \E p \in Predictions(c) :
    p.label \in Grades(c, p.side) /\ estimate' = p

\* AnalyticsPage: below ten rounds only an explanation, above it every card.
PageShows(c) == IF Sample(c) < MinSample THEN "few" ELSE "cards"

\* PredictionCard: a side with its share, or a dash, over the label.
CardSide == IF PageShows(counts) = "few" THEN NoSide ELSE estimate.side
CardLabel == IF PageShows(counts) = "few" THEN Nothing ELSE estimate.label

-----------------------------------------------------------------------------
\* OutcomeDistributionChart: the share of an outcome in tenths of a percent, as
\* toFixed(1) writes it, halves up; the foot of the table says 100%.

Shown(c, o) == (2000 * c[o] + Sample(c)) \div (2 * Sample(c))

-----------------------------------------------------------------------------
\* contracts: confidenceForSample.
ContractLabel(n) == IF n < 30 THEN Nothing ELSE IF n < 100 THEN Low ELSE Moderate

\* The API's buildMeta, "insufficient_data" and "none" both being no signal, and
\* getCurrentPrediction: the outcome counted most, the first of those level.
MetaLabel(n) == IF n < 30 THEN Nothing ELSE IF n < 100 THEN Low ELSE Moderate

Dominant(c) ==
    LET most == {o \in Outcomes : \A p \in Outcomes : c[o] >= c[p]}
    IN IF "DRAGON" \in most THEN "DRAGON" ELSE IF "TIGER" \in most THEN "TIGER" ELSE "TIE"

\* The API counts its own window of the player's bets.
ApiCounts == {c \in [Outcomes -> 0 .. ApiWindow] : Sample(c) <= ApiWindow}

ApiEstimate(c) ==
    IF Sample(c) < MinSample THEN [side |-> NoSide, label |-> Nothing]
    ELSE [side |-> Dominant(c), label |-> Low]

-----------------------------------------------------------------------------
Init ==
    /\ window \in Windows
    /\ counts = [o \in Outcomes |-> 0]
    /\ estimate = [side |-> NoSide, label |-> Nothing]

\* A round settles: it is put in front, and the window keeps the newest.
Slides(o) ==
    IF Sample(counts) < window THEN {[counts EXCEPT ![o] = @ + 1]}
    ELSE {[[counts EXCEPT ![o] = @ + 1] EXCEPT ![x] = @ - 1] : x \in {y \in Outcomes : counts[y] > 0}}

Settle(o) ==
    /\ counts' \in Slides(o)
    /\ Predict(counts')
    /\ UNCHANGED window

Next == \E o \in Outcomes : Settle(o)

Spec == Init /\ [][Next]_vars
-----------------------------------------------------------------------------
\* The window never holds more rounds than were asked for, and the card shows what
\* the formula gives for it.
TypeOK ==
    /\ window \in Windows /\ Sample(counts) <= window
    /\ \A o \in Outcomes : counts[o] >= 0
    /\ estimate.side \in Leans(counts) /\ estimate.label \in Grades(counts, estimate.side)

\* A side is only named when it did come up more often than the other, whatever the
\* doubles round to, and ties count for neither.
LeanIsTrue ==
    estimate.side # NoSide =>
        \A o \in {"DRAGON", "TIGER"} \ {estimate.side} : counts[estimate.side] > counts[o]

\* What strengthens the evidence never weakens what is said of it: another round of
\* the side that leads, in a window that was not full, keeps the side and its label.
Confirmed(o) ==
    /\ estimate.side = o
    /\ counts' = [counts EXCEPT ![o] = @ + 1]
MoreOfTheSame ==
    \A o \in {"DRAGON", "TIGER"} : Confirmed(o) => estimate'.side = o /\ estimate'.label >= estimate.label

\* A label above "no signal" always comes with a gap of the size the code asks for:
\* at least one round in 25, and for the top label six in 50.
LabelsEarned ==
    /\ estimate.label >= Low => 25 * Gap(counts) >= Sample(counts) /\ Sample(counts) >= LabelSample
    /\ estimate.label = Moderate => 25 * Gap(counts) >= 3 * Sample(counts) /\ Gap(counts) >= 6

\* The three shares of the table differ from the 100% under them by a tenth at most.
SharesAddUp ==
    Sample(counts) > 0 =>
        Distance(Shown(counts, "DRAGON") + Shown(counts, "TIGER") + Shown(counts, "TIE"), 1000) <= 1

-----------------------------------------------------------------------------
\* "The side history leans toward, or null when there is no signal."
\* (packages/contracts/src/analytics.ts 59)
NoSideWithoutSignal == CardLabel = Nothing => CardSide = NoSide

\* "Below this many rounds, report no signal at all." (disclaimers.ts 30)
ContractKept == CardLabel <= ContractLabel(Sample(counts))

\* "ceiling: never higher than low" (analytics.service.ts 159): a ceiling lowers.
CeilingOnlyLowers == \A c \in ApiCounts : ApiEstimate(c).label <= MetaLabel(Sample(c))
=============================================================================
