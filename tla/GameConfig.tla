----------------------------- MODULE GameConfig -----------------------------
(***************************************************************************)
(* The settings operators tune and who heeds them: AdminService writes     *)
(* them, GameService.getConfig announces them and getStakeBounds enforces  *)
(* them on rooms and bets, while the game engine runs on its environment   *)
(* and its own payout table.  One action is one statement; a bet reads its *)
(* round, then the settings, then commits.                                 *)
(*                                                                         *)
(* A setting holds text.  A number stands for its decimal digits; Garbled  *)
(* for any text that is no number, Unset for a row that is not there.      *)
(***************************************************************************)
EXTENDS Integers, FiniteSets

CONSTANTS Rooms, Players,
          Tuned,          \* the keys operators write
          Coins,          \* amounts of settings, rooms and stakes
          EnvMin, EnvMax, \* MIN_BET, MAX_BET
          Unset, Garbled

Keys == {"game.min_bet", "game.max_bet", "game.timer.betting_ms", "game.maintenance"}
Sides == {"DRAGON", "TIGER", "TIE"}

GameConfigAssumption ==
    /\ Tuned \subseteq Keys /\ Coins \subseteq Nat
    /\ EnvMin \in Nat /\ EnvMax \in Nat
    /\ {Unset, Garbled} \cap (Nat \cup BOOLEAN) = {} /\ Unset # Garbled

VARIABLES
    setting,  \* app_settings
    room,     \* the stake range each room was created with, or Unset
    round,    \* none, betting, drawing
    window,   \* how long the betting of each room's round lasts
    bet,      \* each player's bet: its room, side and amount
    pc,       \* what the player's call has done; then what became of the bet
    payout,   \* coins the bet returned
    inForce   \* the stake was in the platform's range at some time since the call began

engine == <<round, window>>
bets   == <<bet, pc, payout, inForce>>
vars   == <<setting, room, engine, bets>>

EnvWindow == 20
\* What getConfig announces for a win, and what the engine adds to the stake.
Announced == [DRAGON |-> 2, TIGER |-> 2, TIE |-> 8]
Odds      == [DRAGON |-> 1, TIGER |-> 1, TIE |-> 8]

\* The settings s with the defaults of the environment.
Read(s, key, fallback) == IF s[key] \in Nat THEN s[key] ELSE fallback
Platform(s) ==
    [min |-> Read(s, "game.min_bet", EnvMin), max |-> Read(s, "game.max_bet", EnvMax)]
MinBet == Platform(setting).min
MaxBet == Platform(setting).max
InRange(s, amount) == Platform(s).min <= amount /\ amount <= Platform(s).max
Window == Read(setting, "game.timer.betting_ms", EnvWindow)
\* TRUE stands for an object that says it is enabled; no other text does, "true"
\* included, which parses and has no such member.
Maintenance == setting["game.maintenance"] = TRUE

\* A room narrows the range of the platform.
StakeBounds(r) ==
    [min |-> IF room[r].min > MinBet THEN room[r].min ELSE MinBet,
     max |-> IF room[r].max < MaxBet THEN room[r].max ELSE MaxBet]

Texts(key) ==
    IF key = "game.maintenance" THEN {TRUE, FALSE, Garbled}
    ELSE IF key = "game.timer.betting_ms" THEN {10, Garbled}
    ELSE Coins \cup {Garbled}

-----------------------------------------------------------------------------
Init ==
    /\ setting = [k \in Keys |-> Unset]
    /\ room = [r \in Rooms |-> Unset]
    /\ round = [r \in Rooms |-> "none"] /\ window = [r \in Rooms |-> EnvWindow]
    /\ bet = [p \in Players |-> Unset] /\ pc = [p \in Players |-> "idle"]
    /\ payout = [p \in Players |-> 0] /\ inForce = [p \in Players |-> FALSE]

\* The value is any text; it is in force as soon as it is written.
UpsertAppSetting(key) ==
    /\ \E text \in Texts(key) :
          LET new == [setting EXCEPT ![key] = text] IN
          /\ setting' = new
          /\ inForce' = [p \in Players |->
                            inForce[p] \/ (pc[p] = "bounds" /\ InRange(new, bet[p].amount))]
    /\ UNCHANGED <<room, engine, bet, pc, payout>>

\* The creator names a range inside that of the platform, or takes it as it is.
\* The check and the insert are one step: no property looks between them.
CreateRoom(r) ==
    /\ room[r] = Unset
    /\ \E low \in Coins \cup {MinBet}, high \in Coins \cup {MaxBet} :
          /\ low >= MinBet /\ high <= MaxBet /\ low <= high
          /\ room' = [room EXCEPT ![r] = [min |-> low, max |-> high]]
    /\ UNCHANGED <<setting, engine, bets>>

(* A bet.                                                                  *)

\* The round is read.
PlaceBet(p, r, side, amount) ==
    /\ pc[p] = "idle" /\ room[r] # Unset /\ round[r] = "betting"
    /\ bet' = [bet EXCEPT ![p] = [room |-> r, side |-> side, amount |-> amount]]
    /\ inForce' = [inForce EXCEPT ![p] = InRange(setting, amount)]
    /\ pc' = [pc EXCEPT ![p] = "bounds"]
    /\ UNCHANGED <<setting, room, engine, payout>>

\* The settings are read and the stake is compared with them.
CheckBounds(p) ==
    /\ pc[p] = "bounds"
    /\ LET bounds == StakeBounds(bet[p].room)
           inside == bet[p].amount >= bounds.min /\ bet[p].amount <= bounds.max
       IN pc' = [pc EXCEPT ![p] = IF inside THEN "commit" ELSE "refused"]
    /\ UNCHANGED <<setting, room, engine, bet, payout, inForce>>

\* The transaction reads neither the round nor the settings again.
CommitBet(p) ==
    /\ pc[p] = "commit"
    /\ pc' = [pc EXCEPT ![p] = "placed"]
    /\ UNCHANGED <<setting, room, engine, bet, payout, inForce>>

(* The game engine.                                                        *)

OpenRound(r) ==
    /\ room[r] # Unset /\ round[r] = "none"
    /\ round' = [round EXCEPT ![r] = "betting"]
    /\ window' = [window EXCEPT ![r] = EnvWindow]
    /\ UNCHANGED <<setting, room, bets>>

BeginDrawing(r) ==
    /\ round[r] = "betting"
    /\ round' = [round EXCEPT ![r] = "drawing"]
    /\ UNCHANGED <<setting, room, window, bets>>

\* What a bet returns when the round ends so.
Settled(b, outcome) ==
    IF b.side = outcome THEN b.amount + b.amount * Odds[b.side]
    ELSE IF outcome = "TIE" THEN b.amount \div 2
    ELSE 0

FinishRound(r, outcome) ==
    LET due == {p \in Players : pc[p] = "placed" /\ bet[p].room = r} IN
    /\ round[r] = "drawing"
    /\ round' = [round EXCEPT ![r] = "none"]
    /\ payout' = [p \in Players |-> IF p \in due THEN Settled(bet[p], outcome) ELSE payout[p]]
    /\ pc' = [p \in Players |->
                 IF p \notin due THEN pc[p] ELSE IF bet[p].side = outcome THEN "won" ELSE "over"]
    /\ UNCHANGED <<setting, room, window, bet, inForce>>

Bet(p) ==
    \/ \E r \in Rooms, side \in Sides, amount \in Coins \ {0} : PlaceBet(p, r, side, amount)
    \/ CheckBounds(p) \/ CommitBet(p)

Engine(r) ==
    \/ OpenRound(r) \/ BeginDrawing(r)
    \/ \E outcome \in Sides : FinishRound(r, outcome)

Next ==
    \/ \E key \in Tuned : UpsertAppSetting(key)
    \/ \E r \in Rooms : CreateRoom(r) \/ Engine(r)
    \/ \E p \in Players : Bet(p)

Spec == Init /\ [][Next]_vars

-----------------------------------------------------------------------------
Ranges == [min : Nat, max : Nat]

TypeOK ==
    /\ \A k \in Keys : setting[k] \in Texts(k) \cup {Unset}
    /\ \A r \in Rooms :
          /\ room[r] # Unset => room[r] \in Ranges /\ room[r].min <= room[r].max
          /\ round[r] \in {"none", "betting", "drawing"} /\ window[r] \in Nat
    /\ \A p \in Players :
          /\ pc[p] \in {"idle", "bounds", "commit", "refused", "placed", "won", "over"}
          /\ bet[p] # Unset => bet[p].side \in Sides /\ bet[p].amount \in Nat
          /\ payout[p] \in Nat /\ inForce[p] \in BOOLEAN

Created == {r \in Rooms : room[r] # Unset}

\* "A room may narrow the platform range; it may never widen it", whatever the
\* operators have written since it was created (game.service.ts 160).
NeverWidened ==
    \A r \in Created : StakeBounds(r).min >= MinBet /\ StakeBounds(r).max <= MaxBet

\* A stake that is accepted was in a range the platform had while its call ran: a
\* setting written before the call began governs it (game.service.ts 486-493).
StakeInForce ==
    \A p \in Players : pc[p] \in {"commit", "placed", "won", "over"} => inForce[p]

\* "Minimum stake cannot exceed maximum stake" of a room (game.service.ts 230).
RoomsPlayable == \A r \in Created : StakeBounds(r).min <= StakeBounds(r).max

\* In maintenance "the game engine stops opening new rounds" (DEPLOYMENT.md 180).
MaintenanceStopsRounds ==
    [][\A r \in Rooms : round[r] = "none" /\ round'[r] = "betting" => ~ Maintenance]_vars

\* "operators can retune stakes and timers without a deploy": a round that opens
\* takes the time that is announced (game.service.ts 88-89).
TimersRetuned ==
    [][\A r \in Rooms : round[r] = "none" /\ round'[r] = "betting" => window'[r] = Window]_vars

\* "Payout multipliers by side": what is announced for the sides is of one scale,
\* either with the stake or without it (game.dto.ts 104).
OneScale ==
    \E k \in {0, 1} : \A p \in Players :
        pc[p] = "won" => payout[p] = bet[p].amount * (Announced[bet[p].side] + k)
=============================================================================
