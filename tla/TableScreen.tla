----------------------------- MODULE TableScreen -----------------------------
(***************************************************************************)
(* What the table of the web client shows, in time: the timers of          *)
(* GameRoomPage's round, the countdown ring, the progress bar, the cards,  *)
(* BetPanel with its messages, and the result overlay.  TableClient models *)
(* the same page without its clock, with its leaving and its reloads; here *)
(* the player stays, and every wait has its length.                        *)
(*                                                                         *)
(* Times are milliseconds of the current round.  A timer fires at its time *)
(* or up to Late after it, the one due first before the others.            *)
(***************************************************************************)
EXTENDS Integers, FiniteSets

CONSTANTS Betting, Drawing, Reveal, Result, Confirming, \* durations of the page's waits
          Ticks,          \* period of the ticker
          Step,           \* grain of the clock
          Late,           \* bound: delay of a timer
          Values,         \* values of cards
          Amounts,        \* amounts the player enters or takes from the chips
          MinBet, MaxBet, \* the room's limits
          Start,          \* balance to begin with
          Stakes,         \* bound: selections confirmed
          None            \* no side, no card, no selection, no result

Sides == {"DRAGON", "TIGER", "TIE"}

TableScreenAssumption ==
    /\ {Betting, Drawing, Reveal, Result, Confirming, Ticks, Step} \subseteq Nat \ {0}
    /\ {Late, MinBet, MaxBet, Start, Stakes} \subseteq Nat
    /\ Values \subseteq 1 .. 13 /\ Amounts \subseteq Nat /\ None \notin Sides

VARIABLES
    t,         \* milliseconds since the round began
    timers,    \* what is due, and when
    phase, remaining, countdown, \* the store's clock
    side, amount, submitting, confirmed, \* the store's selection
    asked,     \* the closure of handleConfirm while it waits, with the return it told
    cards, revealed, \* on the table
    result, visible, \* of the overlay
    balance,
    before,    \* ghost: the balance the round began with
    stakes     \* selections confirmed so far

clock == <<phase, remaining, countdown>>
selection == <<side, amount, submitting, confirmed>>
table == <<cards, revealed>>
overlay == <<result, visible>>
vars == <<t, timers, clock, selection, asked, table, overlay, balance, before, stakes>>

-----------------------------------------------------------------------------
\* Pure parts of the components.

Max0(n) == IF n < 0 THEN 0 ELSE n
Ceil(ms) == (ms + 999) \div 1000

\* DEFAULT_PAYOUTS.
Odds(s) == IF s = "TIE" THEN 8 ELSE 1
Return(s, a) == a + a * Odds(s)

Outcome(c) ==
    IF c.dragon > c.tiger THEN "DRAGON" ELSE IF c.tiger > c.dragon THEN "TIGER" ELSE "TIE"

\* PlayingCard: the back tells nothing of the card, its label neither.
Back == 0
Face(c, faceDown) == IF faceDown \/ c = None THEN Back ELSE c
TableFace(s) ==
    Face(IF cards = None THEN None ELSE IF s = "DRAGON" THEN cards.dragon ELSE cards.tiger, ~revealed)

\* CountdownTimer.
Total == (Betting + 500) \div 1000
Digits == LET total == IF Total > 0 THEN Total ELSE 1
          IN IF countdown < total THEN countdown ELSE total
Urgency ==
    IF Digits <= 3 THEN "critical" ELSE IF Digits <= 5 THEN "urgent"
    ELSE IF 100 * Digits <= 35 * Total THEN "low" ELSE "normal"
Pulses == Urgency = "critical"

\* selectCanBet, and BetPanel.
CanBet == phase = "BETTING" /\ confirmed = None /\ ~submitting

Validation ==
    IF amount > balance THEN "balance"
    ELSE IF amount < MinBet THEN "minimum"
    ELSE IF amount > MaxBet THEN "maximum" ELSE None

CanConfirm == CanBet /\ side # None /\ Validation = None /\ amount > 0

\* ResultOverlay: the sum it tells.
Net(r) ==
    IF r.side = None THEN 0
    ELSE IF r.status = "won" THEN r.payout - r.amount ELSE -r.amount

NextRoundIn == Ceil(Result)

-----------------------------------------------------------------------------
Timer(w, after) == [what |-> w, due |-> t + after]

Fires(w) ==
    \E x \in timers : x.what = w /\ x.due <= t /\ \A y \in timers : x.due <= y.due
Others(w) == {x \in timers : x.what # w}

SetPhase(p, ms) == phase' = p /\ remaining' = ms /\ countdown' = Ceil(ms)

\* runRound.
RoundBegins ==
    /\ side' = None /\ confirmed' = None /\ submitting' = FALSE
    /\ cards' = None /\ revealed' = FALSE /\ visible' = FALSE
    /\ SetPhase("BETTING", Betting)
    /\ t' = 0
    /\ timers' = {[what |-> "tick", due |-> Ticks], [what |-> "end", due |-> Betting]}

Init ==
    /\ t = 0
    /\ timers = {[what |-> "tick", due |-> Ticks], [what |-> "end", due |-> Betting]}
    /\ phase = "BETTING" /\ remaining = Betting /\ countdown = Ceil(Betting)
    /\ side = None /\ amount = 100 /\ submitting = FALSE /\ confirmed = None
    /\ asked = None /\ cards = None /\ revealed = FALSE
    /\ result = None /\ visible = FALSE
    /\ balance = Start /\ before = Start /\ stakes = 0

\* Nothing is timed when nothing is due.
Advance ==
    /\ \A x \in timers : t + Step <= x.due + Late
    /\ t' = IF timers = {} THEN t ELSE t + Step
    /\ UNCHANGED <<timers, clock, selection, asked, table, overlay, balance, before, stakes>>

\* The ticker, which ends with the betting; it does not ask for the phase.
Tick ==
    LET left == Betting - t IN
    /\ Fires("tick")
    /\ remaining' = Max0(left) /\ countdown' = Max0(Ceil(left))
    /\ timers' = IF left <= 0 THEN Others("tick") ELSE Others("tick") \cup {Timer("tick", Ticks)}
    /\ UNCHANGED <<t, phase, selection, asked, table, overlay, balance, before, stakes>>

SelectSide(s) ==
    /\ CanBet /\ s # side
    /\ side' = s
    /\ UNCHANGED <<t, timers, clock, amount, submitting, confirmed, asked, table, overlay, balance, before, stakes>>

SetBetAmount(a) ==
    /\ CanBet /\ a # amount
    /\ amount' = a
    /\ UNCHANGED <<t, timers, clock, side, submitting, confirmed, asked, table, overlay, balance, before, stakes>>

\* The button, with the return the panel has told.
Confirm ==
    /\ CanConfirm /\ stakes < Stakes
    /\ submitting' = TRUE
    /\ asked' = [side |-> side, amount |-> amount, told |-> Return(side, amount)]
    /\ timers' = timers \cup {Timer("confirm", Confirming)}
    /\ UNCHANGED <<t, clock, side, amount, confirmed, table, overlay, balance, before, stakes>>

Confirmed ==
    /\ Fires("confirm") /\ timers' = Others("confirm")
    /\ confirmed' = [side |-> asked.side, amount |-> asked.amount]
    /\ side' = asked.side /\ submitting' = FALSE
    /\ balance' = Max0(balance - asked.amount) /\ stakes' = stakes + 1
    /\ UNCHANGED <<t, clock, amount, asked, table, overlay, before>>

Draw(d, g) ==
    /\ Fires("end")
    /\ SetPhase("DRAWING", Drawing)
    /\ cards' = [dragon |-> d, tiger |-> g] /\ UNCHANGED revealed
    /\ timers' = Others("end") \cup {Timer("reveal", Reveal), Timer("settle", Drawing)}
    /\ UNCHANGED <<t, selection, asked, overlay, balance, before, stakes>>

RevealCards ==
    /\ Fires("reveal") /\ timers' = Others("reveal")
    /\ SetPhase("REVEALING", 1500) /\ revealed' = TRUE
    /\ UNCHANGED <<t, selection, asked, cards, overlay, balance, before, stakes>>

Summary ==
    LET o == Outcome(cards)
        won == confirmed # None /\ confirmed.side = o
    IN IF confirmed = None THEN [outcome |-> o, side |-> None]
       ELSE [outcome |-> o, side |-> confirmed.side, amount |-> confirmed.amount,
             status |-> IF won THEN "won" ELSE "lost",
             payout |-> IF won THEN confirmed.amount + confirmed.amount * Odds(o) ELSE 0]

Settle ==
    /\ Fires("settle") /\ timers' = Others("settle") \cup {Timer("next", Result)}
    /\ result' = Summary /\ visible' = TRUE /\ phase' = "SETTLED"
    /\ balance' = IF confirmed = None THEN balance ELSE balance + Summary.payout
    /\ UNCHANGED <<t, remaining, countdown, selection, asked, table, before, stakes>>

\* The button of the overlay.
DismissResult ==
    /\ visible /\ visible' = FALSE
    /\ UNCHANGED <<t, timers, clock, selection, asked, table, result, balance, before, stakes>>

NextRound ==
    /\ Fires("next")
    /\ RoundBegins
    /\ asked' = None /\ before' = balance
    /\ UNCHANGED <<amount, result, balance, stakes>>

Next ==
    \/ Advance \/ Tick \/ Confirm \/ Confirmed \/ RevealCards \/ Settle \/ DismissResult \/ NextRound
    \/ \E s \in Sides \cup {None} : SelectSide(s)
    \/ \E a \in Amounts : SetBetAmount(a)
    \/ \E d, g \in Values : Draw(d, g)

Spec == Init /\ [][Next]_vars
-----------------------------------------------------------------------------
Left == Betting - t

TypeOK ==
    /\ phase \in {"BETTING", "DRAWING", "REVEALING", "SETTLED"}
    /\ remaining \in Nat /\ countdown \in Nat /\ balance \in Nat
    /\ side \in Sides \cup {None} /\ (confirmed # None => side = confirmed.side)
    /\ visible => phase = "SETTLED" /\ result # None
    /\ cards = None <=> phase = "BETTING"
    /\ Cardinality({x.what : x \in timers}) = Cardinality(timers)

\* While the countdown is on the screen its digits are never less than the time
\* that is left, and not older than one tick of the ticker.
DigitsTrue ==
    phase = "BETTING" /\ Left >= 0 =>
        /\ 1000 * countdown >= Left
        /\ 1000 * countdown < Left + 1000 + Ticks + Late

\* What is confirmed late is still confirmed over the backs of the cards.
BlindStake ==
    Confirmed => TableFace("DRAGON") = Back /\ TableFace("TIGER") = Back

\* A selection is within the table's limits and within what the player had.
StakeInLimits ==
    confirmed # None => confirmed.amount \in MinBet .. MaxBet /\ confirmed.amount <= before

\* The sum the overlay tells is what the round has changed in the balance.
NetTold == phase = "SETTLED" => balance = before + Net(result)

\* What the panel told would be returned is what a selection that won returned.
ReturnTold ==
    phase = "SETTLED" /\ result.side # None /\ result.status = "won" => result.payout = asked.told

\* "Milliseconds left, for smooth progress rings." (game-store.ts 29)
PhaseLeft ==
    LET due(w) == (CHOOSE x \in timers : x.what = w).due - t IN
    CASE phase = "BETTING" -> due("end")
      [] phase \in {"DRAWING", "REVEALING"} -> due("settle")
      [] OTHER -> due("next")
RemainingTrue == phase # "SETTLED" => remaining <= Max0(PhaseLeft) + Ticks + Late

\* "Seconds until the next round begins." (result-overlay.tsx 14)
NextRoundTrue == visible => NextRoundIn <= Ceil(Max0(PhaseLeft)) + 1

\* "the number pulses in the final five seconds" (countdown-timer.tsx 23)
PulsesInFinalFive == phase = "BETTING" /\ Digits <= 5 => Pulses
=============================================================================
