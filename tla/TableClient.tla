----------------------------- MODULE TableClient -----------------------------
(***************************************************************************)
(* The web client's table: GameRoomPage (the simulated round and           *)
(* handleConfirm), BetPanel's guards and the game store with what it keeps *)
(* in localStorage.  One action is one event of the browser: a timer, a    *)
(* click, a route change or the end of the tab.                            *)
(*                                                                         *)
(* Timers of one page fire in the order of their times: a confirmation     *)
(* takes 350 ms, and the shortest of the other waits 1200 ms.              *)
(***************************************************************************)
EXTENDS Integers, Sequences, SequencesExt

CONSTANTS Amounts,  \* stakes the player enters
          Start,    \* STARTING_BALANCE
          Leaves,   \* whether the player leaves the table or closes the tab
          Rounds,   \* bound: rounds
          Visits,   \* bound: visits to the table
          None      \* no side, no selection, no outcome

Sides == {"DRAGON", "TIGER", "TIE"}

TableClientAssumption ==
    /\ Amounts \subseteq Nat \ {0} /\ Start \in Nat
    /\ Leaves \in BOOLEAN /\ Rounds \in Nat /\ Visits \in Nat /\ None \notin Sides

VARIABLES
    mounted,   \* whether the table is on the screen
    phase,
    side, amount, submitting, confirmed, \* the store's selection
    pending,   \* handleConfirm calls that wait: their closure and, a ghost, their round
    drawn,     \* the outcome of the cards on the table
    balance, played, \* the store's durable part
    round, visit

selection == <<side, amount, submitting, confirmed>>
durable == <<balance, played>>
vars == <<mounted, phase, selection, pending, drawn, durable, round, visit>>

CanBet == mounted /\ phase = "BETTING" /\ confirmed = None /\ ~submitting

-----------------------------------------------------------------------------
Init ==
    /\ mounted = FALSE /\ phase = "WAITING"
    /\ side = None /\ amount = 1 /\ submitting = FALSE /\ confirmed = None
    /\ pending = <<>> /\ drawn = None
    /\ balance = Start /\ played = <<>>
    /\ round = 0 /\ visit = 0

\* fault: the confirmed selection is left in place.
RunRoundKeeps ==
    /\ side' = None /\ submitting' = FALSE /\ UNCHANGED confirmed
    /\ phase' = "BETTING" /\ drawn' = None
    /\ round < Rounds /\ round' = round + 1

\* resetForNextRound, and the betting phase.
RunRound ==
    /\ side' = None /\ confirmed' = None /\ submitting' = FALSE
    /\ phase' = "BETTING" /\ drawn' = None
    /\ round < Rounds /\ round' = round + 1

Enter ==
    /\ ~mounted /\ visit < Visits
    /\ mounted' = TRUE /\ visit' = visit + 1
    /\ RunRound
    /\ UNCHANGED <<amount, pending, durable>>

SelectSide(s) ==
    /\ CanBet
    /\ side' = s
    /\ UNCHANGED <<mounted, phase, amount, submitting, confirmed, pending, drawn, durable, round, visit>>

SetBetAmount(a) ==
    /\ CanBet
    /\ amount' = a
    /\ UNCHANGED <<mounted, phase, side, submitting, confirmed, pending, drawn, durable, round, visit>>

\* handleConfirm up to its await, from the button BetPanel enables.
Confirm ==
    /\ CanBet /\ side # None /\ amount <= balance
    /\ submitting' = TRUE
    /\ pending' = Append(pending, [side |-> side, amount |-> amount, round |-> round, visit |-> visit])
    /\ UNCHANGED <<mounted, phase, side, amount, confirmed, drawn, durable, round, visit>>

\* The rest of handleConfirm, whatever has become of the round; the balance is
\* clamped at zero.
Confirmed ==
    LET c == Head(pending) IN
    /\ pending # <<>> /\ pending' = Tail(pending)
    /\ confirmed' = [side |-> c.side, amount |-> c.amount]
    /\ side' = c.side /\ submitting' = FALSE
    /\ balance' = IF balance < c.amount THEN 0 ELSE balance - c.amount
    /\ UNCHANGED <<mounted, phase, amount, drawn, played, round, visit>>

Draw(o) ==
    /\ mounted /\ phase = "BETTING"
    /\ \A i \in DOMAIN pending : pending[i].visit = visit
    /\ phase' = "DRAWING" /\ drawn' = o
    /\ UNCHANGED <<mounted, selection, pending, durable, round, visit>>

Reveal ==
    /\ mounted /\ phase = "DRAWING" /\ pending = <<>>
    /\ phase' = "REVEALING"
    /\ UNCHANGED <<mounted, selection, pending, drawn, durable, round, visit>>

Payout(c) ==
    IF c = None \/ c.side # drawn THEN 0
    ELSE c.amount * (IF c.side = "TIE" THEN 9 ELSE 2)

\* The result is recorded, staked on or not, and paid.  (Rounds stays below the 100
\* that settleRound keeps.)
Settle ==
    /\ mounted /\ phase = "REVEALING"
    /\ phase' = "SETTLED"
    /\ played' = <<[outcome |-> drawn, payout |-> Payout(confirmed),
                    amount |-> IF confirmed = None THEN 0 ELSE confirmed.amount]>> \o played
    /\ balance' = balance + Payout(confirmed)
    /\ UNCHANGED <<mounted, selection, pending, drawn, round, visit>>

NextRound ==
    /\ mounted /\ phase = "SETTLED"
    /\ RunRound
    /\ UNCHANGED <<mounted, amount, pending, durable, visit>>

\* fault: the phase of the round that was left stays in the store.
LeavePhase ==
    /\ Leaves /\ mounted
    /\ mounted' = FALSE /\ side' = None /\ confirmed' = None
    /\ UNCHANGED <<phase, amount, submitting, pending, drawn, durable, round, visit>>

\* The timers are cleared; a confirmation that waits goes on, and isSubmitting stays.
Leave ==
    /\ Leaves /\ mounted
    /\ mounted' = FALSE
    /\ phase' = "WAITING" /\ side' = None /\ confirmed' = None
    /\ UNCHANGED <<amount, submitting, pending, drawn, durable, round, visit>>

\* The tab ends; balance, played and history are what comes back.
Close ==
    /\ Leaves /\ (mounted \/ pending # <<>>)
    /\ mounted' = FALSE /\ phase' = "WAITING"
    /\ side' = None /\ amount' = 1 /\ submitting' = FALSE /\ confirmed' = None
    /\ pending' = <<>> /\ drawn' = None
    /\ UNCHANGED <<durable, round, visit>>

\* The button of the responsible-gaming screen, which is never disabled.
ResetPlayData ==
    /\ ~mounted
    /\ balance' = Start /\ played' = <<>>
    /\ UNCHANGED <<mounted, phase, selection, pending, drawn, round, visit>>

Next ==
    \/ Enter \/ Confirm \/ Confirmed \/ Reveal \/ Settle \/ NextRound
    \/ Leave \/ Close \/ ResetPlayData
    \/ \E s \in Sides \cup {None} : SelectSide(s)
    \/ \E a \in Amounts : SetBetAmount(a)
    \/ \E o \in Sides : Draw(o)

Spec == Init /\ [][Next]_vars
-----------------------------------------------------------------------------
Phases == {"WAITING", "BETTING", "DRAWING", "REVEALING", "SETTLED"}

TypeOK ==
    /\ phase \in Phases /\ (phase = "WAITING" <=> ~mounted)
    /\ side \in Sides \cup {None} /\ submitting \in BOOLEAN
    /\ balance \in Nat /\ amount \in Nat
    /\ \A i \in DOMAIN played : played[i].amount = 0 => played[i].payout = 0
    /\ round \in 0 .. Rounds /\ visit \in 0 .. Visits

Unsettled == IF mounted /\ confirmed # None /\ phase # "SETTLED" THEN confirmed.amount ELSE 0
Net == FoldSeq(LAMBDA r, n : n + r.payout - r.amount, 0, played)

\* "Turns played rounds into the movements they caused" (wallet/page.tsx): the
\* balance is what it was at the start, the movements of the rounds played and the
\* stake that is on the table.
BalanceExplained == balance = Start + Net - Unsettled

\* Whatever is left behind by leaving the table, no coins come of it.
NoFreeCoins == balance + Unsettled <= Start + Net

\* "Selections are locked once the server has accepted one for this round."
\* (game-store.ts 164): until the round ends a selection stays what it is.
SelectionLocked ==
    confirmed # None /\ confirmed' # confirmed => confirmed' = None

\* "Selections are only accepted while the round is in its betting phase."
\* (game-store.ts 254)
BetsInPhase == [][Confirmed => phase = "BETTING"]_vars

\* "Set once the server accepts the selection for this round." (game-store.ts 38)
OwnRound == [][Confirmed => Head(pending).round = round /\ mounted]_vars

\* "On a tie, Dragon and Tiger stakes are refunded at 50%." (README.md 135)
TieRefunds ==
    phase = "SETTLED" /\ drawn = "TIE" /\ confirmed # None /\ confirmed.side # "TIE" =>
        Head(played).payout = confirmed.amount \div 2
=============================================================================
