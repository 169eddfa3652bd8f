---- MODULE Tables ----------------------------------------------------------
(* What surrounds a round: who sits at the table, what its rules and its draw are,  *)
(* who is told of it, and the engine that settles several tables at once.  part     *)
(* says which of the components runs; the parts that end in _end are for what       *)
(* calls, rounds and seats come to in the end, and have bounds of their own.  After *)
(* the specification come the proofs, one component after the other, of what holds  *)
(* for all values of the constants.                                                 *)
EXTENDS Integers, Sequences, FiniteSets, Functions, TLC, FiniteSetTheorems,
        SequenceTheorems, TLAPS

CONSTANTS Parts,      \* the ones that may run
          Off, None, Null, Unset, Garbled,
          \* The seats of a room: its calls, who may join, what it holds.
          SeatCalls, Guests, Host, MaxPlayers, TTL, MaxCalls, MaxDeaths,
          \* The lobby.
          Makers, Codes, MaxTries, MaxRooms,
          \* The rounds clients ask for.
          Viewers, RoundOutcomes, Betting, Drawing, MaxRounds,
          \* The settings and the bets under them.
          TunedRooms, Players, Tuned, TunedCoins, EnvMin, EnvMax,
          \* The engine, and rooms it settles at once.
          Signals, Rooms, Users, Winners, Api, MaxStakes, MaxFaults

VARIABLES
    part,  \* the one that runs
    rooms_open, rooms_present, ttl, lock, rooms_pc, user, count, rooms_age, alone, calls,
    rooms_faults,
    rooms, making, tries, knows, invited, lobby_present, shown, failed,
    view_age, rounds, known, proved, answer, history,
    setting, config_room, round, window, bet, config_pc, payout, inForce,
    state, seed, row, signature, edited, report,
    realtime_connected, realtime_room, bucket, published, up, inbox, adapter, got, downs,
    engine_connected, timer, running, work, engine_awaited, shutdown,
    exited, engine_faults, loose,
    settled, contention_awaited, due, contention_open, todo, draft, stale, queue, balance,
    stakes, contention_faults,
    settlement_state, settlement_draw, bets, ledger, settlement_balance, holder,
    settlement_lock, settlement_draft, settlement_pc, call, settlement_todo, plan, moved,
    settlement_calls, settlement_faults

Proc   == <<"p1", "p2">>
Maker  == <<"ann", "bob">>
Room   == <<"r1", "r2">>
Signal == <<"SIGTERM", "SIGINT">>
Socket == <<"s1", "s2">>

\* Two rooms with the same winners; three of which two have the same winners and all
\* can wait for each other in a ring, while stakes are taken from one of them.
Same == "r1" :> {"u1", "u2"} @@ "r2" :> {"u1", "u2"}
Ring == "r1" :> {"u1", "u2"} @@ "r2" :> {"u1", "u2", "u3"} @@ "r3" :> {"u3", "u1"}
OneStake == "u1" :> 1 @@ "u2" :> 0 @@ "u3" :> 0

\* Two accounts, two keys; with a deposit of 3, alice can afford both her bets and bob
\* only one of his.
Bet(u, k, side, amount) == [user |-> u, key |-> k, side |-> side, amount |-> amount]
MCOffers == { Bet("alice", "k1", "DRAGON", 2), Bet("alice", "k2", "TIE", 1),
              Bet("bob", "k1", "DRAGON", 3),   Bet("bob", "k2", "TIGER", 1) }
BetId == << <<"alice", "k1">>, <<"bob", "k2">> >>

Seats == INSTANCE Rooms WITH
    Procs <- SeatCalls, Users <- Guests, MaxFaults <- MaxDeaths, open <- rooms_open,
    present <- rooms_present,
    pc <- rooms_pc, age <- rooms_age, faults <- rooms_faults
Lobby == INSTANCE Lobby WITH
    Users <- Makers, SoftDelete <- TRUE, present <- lobby_present
View == INSTANCE RoundView WITH
    Users <- Viewers, Outcomes <- RoundOutcomes, age <- view_age
Config == INSTANCE GameConfig WITH
    Rooms <- TunedRooms, Coins <- TunedCoins, room <- config_room, pc <- config_pc
Fairness == INSTANCE Fairness WITH
    Ranks <- 2, Suits <- 2, Width <- 5, Windows <- 1, Bytes <- 4
FairnessUniform == INSTANCE Fairness WITH
    Ranks <- 3, Suits <- 1, Width <- 4, Windows <- 1, Bytes <- 4
Realtime == INSTANCE Realtime WITH
    Replicas <- {"r1"}, Sockets <- {"s1", "s2"}, Home <- [s \in {"s1", "s2"} |-> "r1"],
    MaxEvents <- 2, Events <- 3, Downs <- 2, connected <- realtime_connected,
    room <- realtime_room
Engine == INSTANCE EngineLifecycle WITH
    Early <- FALSE, connected <- engine_connected,
    awaited <- engine_awaited, faults <- engine_faults
Contention == INSTANCE Contention WITH
    awaited <- contention_awaited, open <- contention_open, faults <- contention_faults

SeatsEnd == INSTANCE Rooms WITH
    Procs <- {"p1", "p2"}, Users <- {"host", "bob"}, Host <- "host", MaxPlayers <- 2,
    TTL <- 2, MaxCalls <- 4, MaxFaults <- 0,
    open <- rooms_open, present <- rooms_present, pc <- rooms_pc, age <- rooms_age,
    faults <- rooms_faults
SeatsLapseEnd == INSTANCE Rooms WITH
    Procs <- {"p1", "p2"}, Users <- {"host", "bob"}, Host <- "host", MaxPlayers <- 2,
    TTL <- 2, MaxCalls <- 3, MaxFaults <- 1,
    open <- rooms_open, present <- rooms_present, pc <- rooms_pc, age <- rooms_age,
    faults <- rooms_faults
LobbyEnd == INSTANCE Lobby WITH
    Users <- {"ann", "bob"}, Codes <- {"c1"}, MaxTries <- 2, MaxRooms <- 2,
    SoftDelete <- TRUE, present <- lobby_present
RealtimeEnd == INSTANCE Realtime WITH
    Replicas <- {"r1", "r2"}, Sockets <- {"s1", "s2"},
    Home <- "s1" :> "r1" @@ "s2" :> "r2", MaxEvents <- 1, Events <- 1, Downs <- 0,
    connected <- realtime_connected, room <- realtime_room
ContentionEnd == INSTANCE Contention WITH
    Rooms <- {"r1", "r2"}, Users <- {"u1", "u2"}, Winners <- Same, Api <- "api",
    MaxStakes <- [u \in {"u1", "u2"} |-> 1], MaxFaults <- 1,
    awaited <- contention_awaited, open <- contention_open,
    faults <- contention_faults
SettlementEnd == INSTANCE Settlement WITH
    Players <- {"p1", "p2"}, Settlers <- {"s1", "s2"}, Users <- {"alice", "bob"},
    Keys <- {"k1", "k2"}, Offers <- MCOffers, Deposit <- 3, MaxCalls <- 2, MaxFaults <- 1,
    state <- settlement_state, draw <- settlement_draw, balance <- settlement_balance,
    lock <- settlement_lock, draft <- settlement_draft, pc <- settlement_pc,
    todo <- settlement_todo, calls <- settlement_calls, faults <- settlement_faults

roomsVars == <<rooms_open, rooms_present, ttl, lock, rooms_pc, user, count, rooms_age,
    alone, calls, rooms_faults>>
lobbyVars == <<rooms, making, tries, knows, invited, lobby_present, shown, failed>>
viewVars == <<view_age, rounds, known, proved, answer, history>>
configVars == <<setting, config_room, round, window, bet, config_pc, payout,
    inForce>>
fairnessVars == <<state, seed, row, signature, edited, report>>
realtimeVars == <<realtime_connected, realtime_room, bucket, published, up, inbox, adapter,
    got, downs>>
engineVars == <<engine_connected, timer, running, work,
    engine_awaited, shutdown, exited, engine_faults, loose>>
contentionVars == <<settled, contention_awaited, due, contention_open, todo, draft, stale,
    queue, balance, stakes, contention_faults>>
settlementVars == <<settlement_state, settlement_draw, bets, ledger, settlement_balance,
    holder, settlement_lock, settlement_draft, settlement_pc, call, settlement_todo, plan,
    moved, settlement_calls, settlement_faults>>
vars == <<part, roomsVars, lobbyVars, viewVars, configVars, fairnessVars,
    realtimeVars, engineVars, contentionVars, settlementVars>>

\* A component that does not run keeps Off in its variables.
RoomsRests ==
    /\ rooms_open = Off /\ rooms_present = Off /\ ttl = Off /\ lock = Off /\ rooms_pc = Off
    /\ user = Off /\ count = Off /\ rooms_age = Off /\ alone = Off /\ calls = Off
    /\ rooms_faults = Off
LobbyRests ==
    /\ rooms = Off /\ making = Off /\ tries = Off /\ knows = Off /\ invited = Off
    /\ lobby_present = Off /\ shown = Off /\ failed = Off
ViewRests ==
    /\ view_age = Off /\ rounds = Off /\ known = Off /\ proved = Off /\ answer = Off
    /\ history = Off
ConfigRests ==
    /\ setting = Off /\ config_room = Off /\ round = Off /\ window = Off /\ bet = Off
    /\ config_pc = Off /\ payout = Off /\ inForce = Off
FairnessRests ==
    /\ state = Off /\ seed = Off /\ row = Off /\ signature = Off /\ edited = Off
    /\ report = Off
RealtimeRests ==
    /\ realtime_connected = Off /\ realtime_room = Off /\ bucket = Off /\ published = Off
    /\ up = Off /\ inbox = Off /\ adapter = Off /\ got = Off /\ downs = Off
EngineRests ==
    /\ engine_connected = Off /\ timer = Off /\ running = Off /\ work = Off
    /\ engine_awaited = Off /\ shutdown = Off /\ exited = Off
    /\ engine_faults = Off /\ loose = Off
ContentionRests ==
    /\ settled = Off /\ contention_awaited = Off /\ due = Off /\ contention_open = Off
    /\ todo = Off /\ draft = Off /\ stale = Off /\ queue = Off /\ balance = Off
    /\ stakes = Off /\ contention_faults = Off
SettlementRests ==
    /\ settlement_state = Off /\ settlement_draw = Off /\ bets = Off /\ ledger = Off
    /\ settlement_balance = Off /\ holder = Off /\ settlement_lock = Off
    /\ settlement_draft = Off /\ settlement_pc = Off /\ call = Off
    /\ settlement_todo = Off /\ plan = Off /\ moved = Off /\ settlement_calls = Off
    /\ settlement_faults = Off

Init ==
    /\ part \in Parts
    /\ IF part = "rooms" THEN Seats!Init
       ELSE IF part = "rooms_end" THEN SeatsEnd!Init
       ELSE IF part = "rooms_lapse_end" THEN SeatsLapseEnd!Init
       ELSE RoomsRests
    /\ IF part = "lobby" THEN Lobby!Init
       ELSE IF part = "lobby_end" THEN LobbyEnd!Init
       ELSE LobbyRests
    /\ IF part \in {"round_view", "round_view_end"} THEN View!Init ELSE ViewRests
    /\ IF part = "config" THEN Config!Init ELSE ConfigRests
    /\ IF part = "fairness" THEN Fairness!Init
       ELSE IF part = "fairness_uniform" THEN FairnessUniform!Init
       ELSE FairnessRests
    /\ IF part = "realtime" THEN Realtime!Init
       ELSE IF part = "realtime_end" THEN RealtimeEnd!Init
       ELSE RealtimeRests
    /\ IF part \in {"engine", "engine_end"} THEN Engine!Init
       ELSE EngineRests
    /\ IF part = "contention" THEN Contention!Init
       ELSE IF part = "contention_end" THEN ContentionEnd!Init
       ELSE ContentionRests
    /\ IF part = "settlement_end" THEN SettlementEnd!Init ELSE SettlementRests

Next ==
    /\ UNCHANGED part
    /\ IF part = "rooms" THEN Seats!Next
       ELSE IF part = "rooms_end" THEN SeatsEnd!Next
       ELSE IF part = "rooms_lapse_end" THEN SeatsLapseEnd!Next
       ELSE UNCHANGED roomsVars
    /\ IF part = "lobby" THEN Lobby!Next
       ELSE IF part = "lobby_end" THEN LobbyEnd!Next
       ELSE UNCHANGED lobbyVars
    /\ IF part \in {"round_view", "round_view_end"} THEN View!Next ELSE UNCHANGED viewVars
    /\ IF part = "config" THEN Config!Next ELSE UNCHANGED configVars
    /\ IF part = "fairness" THEN Fairness!Next
       ELSE IF part = "fairness_uniform" THEN FairnessUniform!Next
       ELSE UNCHANGED fairnessVars
    /\ IF part = "realtime" THEN Realtime!Next
       ELSE IF part = "realtime_end" THEN RealtimeEnd!Next
       ELSE UNCHANGED realtimeVars
    /\ IF part \in {"engine", "engine_end"} THEN Engine!Next
       ELSE UNCHANGED engineVars
    /\ IF part = "contention" THEN Contention!Next
       ELSE IF part = "contention_end" THEN ContentionEnd!Next
       ELSE UNCHANGED contentionVars
    /\ IF part = "settlement_end" THEN SettlementEnd!Next ELSE UNCHANGED settlementVars

Spec == Init /\ [][Next]_vars

\* Of each part, the fairness of its FairSpec: calls that have begun go on, messages that
\* have come are handled, time passes and what has run out is gone.
FairSpec ==
    /\ Spec
    /\ WF_roomsVars(part = "rooms_end" /\ SeatsEnd!Tick)
    /\ WF_roomsVars(part = "rooms_end" /\ SeatsEnd!LockLapses)
    /\ WF_roomsVars(part = "rooms_lapse_end" /\ SeatsLapseEnd!Tick)
    /\ WF_roomsVars(part = "rooms_lapse_end" /\ SeatsLapseEnd!LockLapses)
    /\ WF_viewVars(part = "round_view_end" /\ View!Engine)
    /\ WF_viewVars(part = "round_view_end" /\ View!Tick)
    /\ WF_engineVars(part = "engine_end" /\ Engine!TickEnds)
    /\ WF_engineVars(part = "engine_end" /\ Engine!Step("r3"))
    /\ WF_contentionVars(part = "contention_end" /\ ContentionEnd!Tick)
    /\ \A i \in 1..2 :
         /\ WF_roomsVars(part = "rooms_end" /\ SeatsEnd!Step(Proc[i]))
         /\ WF_roomsVars(part = "rooms_lapse_end" /\ SeatsLapseEnd!Step(Proc[i]))
         /\ WF_viewVars(part = "round_view_end" /\ i \in DOMAIN rounds /\ View!GetRound(i))
         /\ WF_lobbyVars(part = "lobby_end" /\ (\/ LobbyEnd!Draw(Maker[i]) \/ LobbyEnd!GiveUp(Maker[i])
                                                \/ LobbyEnd!Insert(Maker[i])))
         /\ WF_realtimeVars(part = "realtime_end" /\ RealtimeEnd!Emit(Room[i]))
         /\ WF_realtimeVars(part = "realtime_end" /\ RealtimeEnd!Relay(Room[i]))
         /\ WF_engineVars(part = "engine_end" /\ Engine!Step(Room[i]))
         /\ WF_engineVars(part = "engine_end" /\ Engine!Shut(Signal[i]))
         /\ WF_contentionVars(part = "contention_end" /\ ContentionEnd!Settle(Room[i]))
         /\ WF_contentionVars(part = "contention_end" /\ ContentionEnd!CommitStake(<<"u1", "u2">>[i]))
         /\ WF_settlementVars(part = "settlement_end" /\ SettlementEnd!PlayerStep(Proc[i]))
         /\ WF_settlementVars(part = "settlement_end" /\ SettlementEnd!SettlerStep(Socket[i]))

-----------------------------------------------------------------------------
\* The bounds of each are ones its component allows.
ASSUME TablesAssumption ==
    /\ Seats!RoomsAssumption
    /\ Lobby!LobbyAssumption /\ View!RoundViewAssumption
    /\ Config!GameConfigAssumption /\ Fairness!FairnessAssumption
    /\ FairnessUniform!FairnessAssumption /\ Realtime!RealtimeAssumption
    /\ Engine!EngineLifecycleAssumption /\ Contention!ContentionAssumption
    /\ SeatsEnd!RoomsAssumption /\ SeatsLapseEnd!RoomsAssumption
    /\ LobbyEnd!LobbyAssumption /\ RealtimeEnd!RealtimeAssumption
    /\ ContentionEnd!ContentionAssumption

\* The variables of the component that runs keep their types, and what it holds fits
\* together.
TypeOK ==
    /\ part = "rooms"      => Seats!TypeOK
    /\ part = "lobby"      => Lobby!TypeOK
    /\ part = "round_view" => View!TypeOK
    /\ part = "config"     => Config!TypeOK
    /\ part = "engine"     => Engine!TypeOK
    /\ part = "contention" => Contention!TypeOK

\* However joins, crashes and settings meet, a room seats no more than it holds, only
\* whom it invited if it is private, under a code of its own, and takes the stakes the
\* platform allows (game.service.ts).
RoomRulesKept ==
    /\ part = "rooms" => Seats!CapacityKept
    /\ part = "lobby" => Lobby!OnlyTheInvited /\ Lobby!CodesAreOnesOwn
    /\ part = "config" => Config!NeverWidened /\ Config!StakeInForce

\* An outcome is the one the seeds deal, each as likely as any other, an edit of it is
\* found out, no query shows what was drawn before it is final, and events of rounds come
\* in order.  The queries of rounds withhold the seed as well; the fairness query does
\* not (View!SeedWithheld) (fairness.ts, game.service.ts, fairness.service.ts,
\* realtime/main.ts).
OutcomesFair ==
    /\ part = "fairness" => Fairness!DealtRight /\ Fairness!EditDetected
    /\ part = "fairness_uniform" => FairnessUniform!Uniform /\ FairnessUniform!ApiUniform
    /\ part = "round_view" => View!RoundsWithhold
    /\ part = "realtime" => Realtime!OnceInOrder

\* Rooms whose settlements meet on the wallets of the same users, in a ring or with
\* stakes, pay each winner once, and the engine leaves no transaction open when it ends,
\* but those of a tick that failed, which its shutdown does not wait for (settlement.ts,
\* scheduler.ts).
PaidOncePerRoom ==
    /\ part = "contention" => Contention!PaidOncePerRoom
    /\ part = "engine" => Engine!NothingAbandoned

\* What a player was given is not taken back by others: a seat, a round of the history,
\* the mutex of a join; and no tick begins while the one before is in a room, unless
\* that one has failed and left the room to itself (game.service.ts, scheduler.ts).
NothingTakenBack ==
    [][/\ part = "rooms" => Seats!SeatKept /\ Seats!OwnLockOnly
       /\ part = "round_view" => View!HistoryKept
       /\ part = "engine" => Engine!TicksDoNotOverlap]_vars

\* What is owed is given: the mutex of a seat to the next who joins, an answer to who
\* makes a room, an event to who is there, the outcome and the seed of a round to a
\* client that asks again, the exit to who stops the engine, a result to a bet that was
\* committed before betting closed, through conflicts, dead transactions and stale
\* redraws (game.service.ts, realtime/main.ts, scheduler.ts, settlement.ts).
Owed(i) ==
    CASE part = "rooms_lapse_end" -> lock # None
      [] part = "lobby_end"       -> making[Maker[i]] # None
      [] part = "realtime_end"    -> 1 \in Range(inbox[Room[i]]) /\ Socket[i] \in realtime_room
      [] part = "round_view_end"  -> i \in DOMAIN rounds
      [] part = "engine_end"      -> shutdown[Signal[i]] # "none"
      [] part = "settlement_end"  -> BetId[i] \in DOMAIN bets /\ settlement_state = "BETTING"
      [] OTHER -> FALSE
Given(i) ==
    CASE part = "rooms_lapse_end" -> lock = None
      [] part = "lobby_end"       -> making[Maker[i]] = None
      [] part = "realtime_end"    -> Socket[i] \notin realtime_room \/ 1 \in Range(got[Socket[i]])
      [] part = "round_view_end"  -> {"seed", "cards", "outcome"} \subseteq known[i]
      [] part = "engine_end"      -> exited
      [] part = "settlement_end"  -> BetId[i] \in DOMAIN bets /\ bets[BetId[i]].status # "PLACED"
      [] OTHER -> FALSE
OwedIsGiven == \A i \in 1..2 : Owed(i) ~> Given(i)

\* The round comes to rest settled, with no call left that waits for ever for a row or for
\* somebody who waits for it; every room whose winners are those of others is settled;
\* seats that nobody refreshes come free (settlement.ts, scheduler.ts, game.service.ts).
AtRest(i) ==
    CASE part = "rooms_end" -> <<"host", "bob">>[i] \notin rooms_present
      [] part = "contention_end" -> Room[i] \in settled
      [] part = "settlement_end" -> settlement_state = "SETTLED" /\ settlement_pc[Proc[i]] = "idle"
      [] OTHER -> TRUE
ComesToRest == \A i \in 1..2 : <>[]AtRest(i)
-----------------------------------------------------------------------------
(* The seats of a room (module Rooms). *)

SeatTypes ==
    /\ rooms_open \in BOOLEAN /\ rooms_present \subseteq Guests /\ IsFiniteSet(rooms_present)
    /\ ttl \in 0 .. TTL /\ lock \in SeatCalls \cup {None}
    /\ rooms_pc \in [SeatCalls
         -> {"idle", "host", "host-ttl", "count", "decide", "add", "ttl", "release"}]
    /\ user \in [SeatCalls -> Guests] /\ count \in [SeatCalls -> Nat]
    /\ rooms_age \in [Guests -> 0 .. TTL + 1] /\ alone \in BOOLEAN
    /\ calls \in 0 .. MaxCalls /\ rooms_faults \in 0 .. MaxDeaths

\* The set lapses when whoever was refreshed last has waited for TTL.
SeatInv ==
    /\ SeatTypes
    /\ rooms_present = {} => ttl = 0
    /\ rooms_present # {} => rooms_open
    /\ \A p \in SeatCalls : rooms_pc[p] # "idle" => rooms_open
    /\ alone => \A p \in SeatCalls : Seats!Joining(p) => lock = p
    /\ ttl > 0 => \A u \in Guests : rooms_age[u] + ttl >= TTL

\* While every join has its mutex, one that goes on to take a seat has one to take; and
\* the host, who does not look, comes in first.
SeatsLeft ==
    /\ Cardinality(rooms_present) <= MaxPlayers
    /\ \A p \in SeatCalls : rooms_pc[p] = "host"
         => rooms_present = {} /\ \A q \in SeatCalls : ~Seats!Joining(q)
    /\ \A p, q \in SeatCalls : rooms_pc[p] = "host" /\ rooms_pc[q] = "host" => p = q
    /\ \A p \in SeatCalls : rooms_pc[p] = "decide" => count[p] >= Cardinality(rooms_present)
    /\ \A p \in SeatCalls : rooms_pc[p] = "add" =>
          user[p] \in rooms_present \/ Cardinality(rooms_present) < MaxPlayers
    /\ ~rooms_open => rooms_present = {}

\* The module of the seats counts with a Cardinality of its own.
LEMMA SameCount == ASSUME NEW S PROVE Seats!Cardinality(S) = Cardinality(S)
  BY Zenon DEF Seats!Cardinality, Cardinality

LEMMA SeatInvInit == ASSUME Seats!RoomsAssumption PROVE Seats!Init => SeatInv
<1> SUFFICES ASSUME Seats!Init PROVE SeatInv
  OBVIOUS
<1>1. TTL \in Nat \ {0} /\ Host \in Guests /\ MaxCalls \in Nat /\ MaxDeaths \in Nat
  BY DEF Seats!RoomsAssumption
<1>2. rooms_open = FALSE /\ rooms_present = {} /\ ttl = 0 /\ lock = None /\ alone = TRUE
      /\ IsFiniteSet(rooms_present)
  BY FS_EmptySet DEF Seats!Init
<1>3. /\ rooms_pc \in [SeatCalls
           -> {"idle", "host", "host-ttl", "count", "decide", "add", "ttl", "release"}]
      /\ user \in [SeatCalls -> Guests] /\ count \in [SeatCalls -> Nat]
      /\ rooms_age \in [Guests -> 0 .. TTL + 1]
      /\ \A p \in SeatCalls : rooms_pc[p] = "idle"
      /\ calls \in 0 .. MaxCalls /\ rooms_faults \in 0 .. MaxDeaths
  BY <1>1 DEF Seats!Init
<1>4. rooms_open \in BOOLEAN /\ alone \in BOOLEAN /\ rooms_present \subseteq Guests
      /\ lock \in SeatCalls \cup {None}
      /\ ttl \in 0 .. TTL /\ ~(ttl > 0)
  <2>1. rooms_open \in BOOLEAN /\ alone \in BOOLEAN
    BY <1>2, Zenon
  <2> QED BY <1>1, <1>2, <2>1
<1>5. \A p \in SeatCalls : ~Seats!Joining(p)
  BY <1>3 DEF Seats!Joining
<1> QED BY <1>2, <1>3, <1>4, <1>5 DEF SeatInv, SeatTypes

LEMMA SeatInvStep == ASSUME Seats!RoomsAssumption
  PROVE SeatInv /\ [Seats!Next]_(Seats!vars) => SeatInv'
<1> SUFFICES ASSUME SeatInv, [Seats!Next]_(Seats!vars) PROVE SeatInv'
  OBVIOUS
<1>0. TTL \in Nat \ {0} /\ Host \in Guests /\ MaxCalls \in Nat /\ MaxDeaths \in Nat
      /\ None \notin SeatCalls
  BY DEF Seats!RoomsAssumption
<1> USE DEF SeatInv, SeatTypes, Seats!Joining
<1>1. ASSUME NEW p \in SeatCalls, Seats!CreateRoom(p) PROVE SeatInv'
  BY <1>0, <1>1 DEF Seats!CreateRoom, Seats!Call, Seats!Go
<1>2. ASSUME NEW p \in SeatCalls, NEW u \in Guests, Seats!Acquire(p, u) PROVE SeatInv'
  BY <1>0, <1>2 DEF Seats!Acquire, Seats!Call, Seats!Go
<1>3. ASSUME NEW p \in SeatCalls, Seats!GetOccupancy(p) PROVE SeatInv'
  <2>1. Cardinality(rooms_present) \in Nat
    BY FS_CardinalityType
  <2> QED BY <1>0, <1>3, <2>1, SameCount DEF Seats!GetOccupancy, Seats!Go
<1>4. ASSUME NEW p \in SeatCalls, Seats!Decide(p) PROVE SeatInv'
  BY <1>0, <1>4 DEF Seats!Decide, Seats!Go
<1>5. ASSUME NEW p \in SeatCalls, Seats!AddPresence(p) PROVE SeatInv'
  <2>1. IsFiniteSet(rooms_present \cup {user[p]})
    BY FS_AddElement
  <2> QED BY <1>0, <1>5, <2>1 DEF Seats!AddPresence, Seats!Go
<1>6. ASSUME NEW p \in SeatCalls, Seats!Refresh(p) PROVE SeatInv'
  BY <1>0, <1>6 DEF Seats!Refresh, Seats!Go, Seats!End
<1>7. ASSUME NEW p \in SeatCalls, Seats!Release(p) PROVE SeatInv'
  BY <1>0, <1>7 DEF Seats!Release, Seats!Go, Seats!End
<1>8. ASSUME NEW p \in SeatCalls, NEW u \in Guests, Seats!LeaveRoom(p, u) PROVE SeatInv'
  <2>1. IsFiniteSet(rooms_present \ {u})
    BY FS_RemoveElement
  <2> QED BY <1>0, <1>8, <2>1 DEF Seats!LeaveRoom
<1>9. CASE Seats!Tick
  <2>1. IsFiniteSet({})
    BY FS_EmptySet
  <2>2. ttl' > 0 => \A u \in Guests : rooms_age'[u] + ttl' >= TTL
    BY <1>0, <1>9 DEF Seats!Tick
  <2> QED BY <1>0, <1>9, <2>1, <2>2 DEF Seats!Tick
<1>10. CASE Seats!LockLapses
  BY <1>0, <1>10 DEF Seats!LockLapses
<1>11. ASSUME NEW p \in SeatCalls, Seats!Die(p) PROVE SeatInv'
  BY <1>0, <1>11 DEF Seats!Die, Seats!Go, Seats!End
<1>12. CASE UNCHANGED Seats!vars
  BY <1>12 DEF Seats!vars
<1> QED BY <1>1, <1>2, <1>3, <1>4, <1>5, <1>6, <1>7, <1>8, <1>9, <1>10, <1>11, <1>12
     DEF Seats!Next, Seats!Step

LEMMA SeatsLeftInit == ASSUME Seats!RoomsAssumption PROVE Seats!Init => SeatsLeft
<1> SUFFICES ASSUME Seats!Init PROVE SeatsLeft
  OBVIOUS
<1>1. rooms_present = {} /\ \A p \in SeatCalls : rooms_pc[p] = "idle"
  BY DEF Seats!Init
<1>2. Cardinality(rooms_present) = 0 /\ 0 <= MaxPlayers
  BY <1>1, FS_EmptySet DEF Seats!RoomsAssumption
<1> QED BY <1>1, <1>2 DEF SeatsLeft

LEMMA SeatsLeftStep ==
  ASSUME Seats!RoomsAssumption
           PROVE SeatInv /\ (alone => SeatsLeft) /\ [Seats!Next]_(Seats!vars)
                   => (alone' => SeatsLeft')
<1> SUFFICES ASSUME SeatInv, alone => SeatsLeft, [Seats!Next]_(Seats!vars), alone'
    PROVE SeatsLeft'
  OBVIOUS
<1>a. alone
  BY DEF Seats!Next, Seats!CreateRoom, Seats!Call, Seats!Acquire, Seats!Step,
       Seats!GetOccupancy, Seats!Decide, Seats!AddPresence, Seats!Refresh,
         Seats!Release, Seats!LeaveRoom, Seats!Tick, Seats!LockLapses, Seats!Die, Seats!vars
<1>b. SeatsLeft
  BY <1>a
<1>0. /\ IsFiniteSet(rooms_present) /\ Cardinality(rooms_present) \in Nat
      /\ MaxPlayers \in Nat \ {0} /\ Host \in Guests
      /\ rooms_pc \in [SeatCalls
           -> {"idle", "host", "host-ttl", "count", "decide", "add", "ttl", "release"}]
      /\ user \in [SeatCalls -> Guests] /\ count \in [SeatCalls -> Nat]
      /\ \A p, q \in SeatCalls : Seats!Joining(p) /\ Seats!Joining(q) => p = q
      /\ \A p \in SeatCalls : rooms_pc[p] # "idle" => rooms_open
  BY <1>a, FS_CardinalityType DEF Seats!RoomsAssumption, SeatInv, SeatTypes
<1>c. Cardinality({}) = 0
  BY FS_EmptySet
<1> USE DEF SeatsLeft, Seats!Joining
<1>1. ASSUME NEW p \in SeatCalls, Seats!CreateRoom(p) PROVE SeatsLeft'
  BY <1>0, <1>1, <1>b DEF Seats!CreateRoom, Seats!Call, Seats!Go
<1>2. ASSUME NEW p \in SeatCalls, NEW u \in Guests, Seats!Acquire(p, u) PROVE SeatsLeft'
  BY <1>0, <1>2, <1>b DEF Seats!Acquire, Seats!Call, Seats!Go
<1>3. ASSUME NEW p \in SeatCalls, Seats!GetOccupancy(p) PROVE SeatsLeft'
  BY <1>0, <1>3, <1>b, SameCount DEF Seats!GetOccupancy, Seats!Go
<1>4. ASSUME NEW p \in SeatCalls, Seats!Decide(p) PROVE SeatsLeft'
  BY <1>0, <1>4, <1>b DEF Seats!Decide, Seats!Go
<1>5. ASSUME NEW p \in SeatCalls, Seats!AddPresence(p) PROVE SeatsLeft'
  <2>1. /\ rooms_present' = rooms_present \cup {user[p]}
             /\ UNCHANGED <<rooms_open, count, user>>
        /\ rooms_pc' = [rooms_pc EXCEPT ![p] = IF rooms_pc[p] = "host" THEN "host-ttl"
             ELSE "ttl"]
    BY <1>5 DEF Seats!AddPresence, Seats!Go
  <2>2. Cardinality(rooms_present') <= MaxPlayers
    <3>1. Cardinality(rooms_present \cup {user[p]})
            = IF user[p] \in rooms_present THEN Cardinality(rooms_present)
              ELSE Cardinality(rooms_present) + 1
      BY <1>0, FS_AddElement
    <3>2. user[p] \in rooms_present \/ Cardinality(rooms_present) < MaxPlayers
      BY <1>0, <1>5, <1>b, <1>c DEF Seats!AddPresence
    <3> QED BY <1>0, <2>1, <3>1, <3>2, <1>b
  <2>3. \A q \in SeatCalls : ~(rooms_pc'[q] \in {"count", "decide", "add", "host"})
        \/ (rooms_pc[p] = "host" /\ q # p /\ rooms_pc[q] = "host")
    BY <1>0, <1>5, <1>b, <2>1 DEF Seats!AddPresence
  <2>4. rooms_open
    BY <1>0, <1>5 DEF Seats!AddPresence
  <2> QED BY <1>0, <1>5, <1>b, <2>1, <2>2, <2>3, <2>4
<1>6. ASSUME NEW p \in SeatCalls, Seats!Refresh(p) PROVE SeatsLeft'
  BY <1>0, <1>6, <1>b DEF Seats!Refresh, Seats!Go, Seats!End
<1>7. ASSUME NEW p \in SeatCalls, Seats!Release(p) PROVE SeatsLeft'
  BY <1>0, <1>7, <1>b DEF Seats!Release, Seats!Go, Seats!End
<1>8. ASSUME NEW p \in SeatCalls, NEW u \in Guests, Seats!LeaveRoom(p, u) PROVE SeatsLeft'
  <2>1. IsFiniteSet(rooms_present \ {u}) /\ Cardinality(rooms_present \ {u}) \in Nat
        /\ Cardinality(rooms_present \ {u})
             = IF u \in rooms_present THEN Cardinality(rooms_present) - 1
               ELSE Cardinality(rooms_present)
    BY <1>0, FS_RemoveElement, FS_CardinalityType
  <2>2. rooms_present' = rooms_present \ {u} /\ UNCHANGED <<rooms_open, rooms_pc, user, count>>
    BY <1>8 DEF Seats!LeaveRoom
  <2>3. ASSUME NEW q \in SeatCalls, rooms_pc[q] = "add"
        PROVE  user[q] \in rooms_present' \/ Cardinality(rooms_present') < MaxPlayers
    <3>1. CASE user[q] \in rooms_present
      BY <1>0, <1>b, <2>1, <2>2, <2>3, <3>1
    <3>2. CASE Cardinality(rooms_present) < MaxPlayers
      BY <1>0, <2>1, <2>2, <2>3, <3>2
    <3> QED BY <1>b, <2>2, <2>3, <3>1, <3>2
  <2>4. ASSUME NEW q \in SeatCalls, rooms_pc[q] = "decide"
               PROVE count[q] >= Cardinality(rooms_present')
    BY <1>0, <1>b, <2>1, <2>2, <2>4
  <2>5. Cardinality(rooms_present') <= MaxPlayers
    BY <1>0, <1>b, <2>1, <2>2
  <2> QED BY <1>b, <2>2, <2>3, <2>4, <2>5
<1>9. CASE Seats!Tick
  BY <1>0, <1>9, <1>b, <1>c DEF Seats!Tick
<1>10. CASE Seats!LockLapses
  BY <1>0, <1>10, <1>b DEF Seats!LockLapses
<1>11. ASSUME NEW p \in SeatCalls, Seats!Die(p) PROVE SeatsLeft'
  BY <1>0, <1>11, <1>b DEF Seats!Die, Seats!Go, Seats!End
<1>12. CASE UNCHANGED Seats!vars
  BY <1>12, <1>b DEF Seats!vars
<1> QED BY <1>1, <1>2, <1>3, <1>4, <1>5, <1>6, <1>7, <1>8, <1>9, <1>10, <1>11, <1>12
     DEF Seats!Next, Seats!Step

\* The seats of a room have their types, and one that was answered is kept until its player
\* leaves or its TTL is over (joinRoom, leaveRoom).
THEOREM SeatsSafe ==
  ASSUME Seats!RoomsAssumption
           PROVE Seats!Spec => []Seats!TypeOK /\ [][Seats!SeatKept]_(Seats!vars)
<1>1. SeatInv => Seats!TypeOK
  BY DEF SeatInv, SeatTypes, Seats!TypeOK
<1>2. SeatInv /\ [Seats!Next]_(Seats!vars) => [Seats!SeatKept]_(Seats!vars)
  <2> SUFFICES ASSUME SeatInv, Seats!Next, NEW u \in rooms_present \ rooms_present'
               PROVE  (\E p \in SeatCalls : Seats!LeaveRoom(p, u)) \/ rooms_age[u] + 1 >= TTL
    BY DEF Seats!SeatKept
  <2>1. CASE Seats!Tick
    <3>1. ttl = 1 /\ u \in Guests
      BY <2>1 DEF Seats!Tick, SeatInv, SeatTypes
    <3> QED BY <3>1 DEF SeatInv
  <2>2. CASE Seats!LockLapses
    BY <2>2 DEF Seats!LockLapses
  <2>3. ASSUME NEW p \in SeatCalls, NEW v \in Guests, Seats!LeaveRoom(p, v) PROVE u = v
    BY <2>3 DEF Seats!LeaveRoom
  <2>4. ASSUME NEW p \in SeatCalls,
               Seats!CreateRoom(p) \/ Seats!Step(p) \/ Seats!Die(p)
                 \/ \E v \in Guests : Seats!Acquire(p, v)
        PROVE  FALSE
    BY <2>4 DEF Seats!CreateRoom, Seats!Step, Seats!Die, Seats!Acquire, Seats!GetOccupancy,
         Seats!Decide, Seats!AddPresence, Seats!Refresh, Seats!Release
  <2> QED BY <2>1, <2>2, <2>3, <2>4 DEF Seats!Next
<1> QED BY SeatInvInit, SeatInvStep, <1>1, <1>2, PTL DEF Seats!Spec

\* Joins that end within their mutex and begin when the host is in leave no room over its
\* capacity, however they meet, leave, crash and lapse (joinRoom, the mutex of RedisService).
THEOREM CapacitySafe == ASSUME Seats!RoomsAssumption PROVE Seats!Spec => []Seats!CapacityKept
<1>1. (alone => SeatsLeft) => Seats!CapacityKept
  BY SameCount DEF SeatsLeft, Seats!CapacityKept
<1> QED BY SeatInvInit, SeatInvStep, SeatsLeftInit, SeatsLeftStep, <1>1, PTL DEF Seats!Spec

\* A join releases no mutex but its own (releaseLock compares the token).
THEOREM OwnLocksOnly == [][Seats!Next]_(Seats!vars) => [][Seats!OwnLockOnly]_(Seats!vars)
<1>1. [Seats!Next]_(Seats!vars) => [Seats!OwnLockOnly]_(Seats!vars)
  BY DEF Seats!OwnLockOnly, Seats!Release
<1> QED BY <1>1, PTL

(* The lobby (module Lobby). *)

Making == {v \in Makers : making[v] # None}

LobbyInv ==
    /\ Lobby!TypeOK
    /\ IsFiniteSet(Making) /\ Len(rooms) + Cardinality(Making) <= MaxRooms
    /\ \A r \in Lobby!Ids : rooms[r].mode = "PRIVATE" => rooms[r].inviteCode # None
    /\ \A k \in knows : rooms[k[2]].mode = "PRIVATE" => k \in invited
    /\ Lobby!OnlyTheInvited /\ Lobby!CodesAreOnesOwn

LEMMA LobbyCount == ASSUME NEW S PROVE Lobby!Cardinality(S) = Cardinality(S)
  BY Zenon DEF Lobby!Cardinality, Cardinality

LEMMA LobbyInvInit == ASSUME Lobby!LobbyAssumption PROVE Lobby!Init => LobbyInv
<1> SUFFICES ASSUME Lobby!Init PROVE LobbyInv
  OBVIOUS
<1> DEFINE lobby == [code |-> None, inviteCode |-> None, mode |-> "CLASSIC",
                     host |-> None, password |-> FALSE]
<1>1. rooms = <<lobby>> /\ lobby \in Lobby!Row
  BY DEF Lobby!Init, Lobby!Row, Lobby!Modes
<1>2. rooms \in Seq(Lobby!Row) /\ Len(rooms) = 1 /\ Lobby!Ids = {1} /\ rooms[1] = lobby
  BY <1>1 DEF Lobby!Ids
<1>3. Making = {}
  BY DEF Lobby!Init, Making
<1>4. IsFiniteSet(Making) /\ Cardinality(Making) = 0
  BY <1>3, FS_EmptySet
<1>5. MaxRooms \in Nat \ {0} /\ MaxTries \in Nat
  BY DEF Lobby!LobbyAssumption
<1>6. tries \in [Makers -> [Lobby!Fields -> 0 .. MaxTries]]
  BY <1>5 DEF Lobby!Init
<1>7. Lobby!TypeOK
  BY <1>2, <1>5, <1>6 DEF Lobby!Init, Lobby!TypeOK
<1>8. \A r \in Lobby!Ids : rooms[r].mode # "PRIVATE"
  BY <1>2
<1>9. Lobby!CodesAreOnesOwn
  BY <1>2 DEF Lobby!CodesAreOnesOwn
<1> QED BY <1>2, <1>4, <1>5, <1>7, <1>8, <1>9 DEF LobbyInv, Lobby!Init, Lobby!OnlyTheInvited

\* What the answer to a listing or a join tells of the entry of a room.
LEMMA Told ==
  ASSUME Lobby!LobbyAssumption, LobbyInv, NEW r \in Lobby!Ids, NEW p \in BOOLEAN
  PROVE  /\ [Lobby!ToRoomDto(r, rooms[r]) EXCEPT !.passwordProtected = p] \in Lobby!Dto
         /\ Lobby!ToRoomDto(r, rooms[r]) \in Lobby!Dto
         /\ rooms[r].mode = "PRIVATE" => Lobby!ToRoomDto(r, rooms[r]).inviteCode = None
<1>1. rooms[r] \in Lobby!Row /\ r \in 1 .. MaxRooms
  BY DEF LobbyInv, Lobby!TypeOK, Lobby!Ids, Lobby!LobbyAssumption
<1>2. Lobby!ToRoomDto(r, rooms[r]) \in Lobby!Dto
  BY <1>1 DEF Lobby!ToRoomDto, Lobby!Dto, Lobby!Row
<1>3. rooms[r].mode = "PRIVATE" => Lobby!ToRoomDto(r, rooms[r]).inviteCode = None
  BY DEF Lobby!ToRoomDto
<1> QED BY <1>2, <1>3 DEF Lobby!Dto

\* An answer that tells of a room changes what its reader knows of rooms that are not private.
LEMMA Answered ==
  ASSUME Lobby!LobbyAssumption, LobbyInv, NEW u \in Makers, NEW r \in Lobby!Ids,
           NEW d \in Lobby!Dto,
         rooms[r].mode = "PRIVATE" => d.inviteCode = None, d.id = r,
         Lobby!Answer(u, d), knows' =
           Lobby!Learned(u, d), UNCHANGED <<rooms, making, tries, invited>>,
         lobby_present' \subseteq Makers \X Lobby!Ids,
         \A p \in lobby_present' : rooms[p[2]].mode = "PRIVATE" => p \in invited
  PROVE  LobbyInv'
<1>1. shown' \in [Makers -> Lobby!Dto \cup {None}] /\ failed' \subseteq Makers
  BY DEF Lobby!Answer, LobbyInv, Lobby!TypeOK
<1>2. knows' \subseteq Makers \X Lobby!Ids
  BY DEF Lobby!Learned, LobbyInv, Lobby!TypeOK
<1>3. \A k \in knows' : rooms[k[2]].mode = "PRIVATE" => k \in invited
  BY DEF Lobby!Learned, LobbyInv
<1>4. Lobby!TypeOK'
  BY <1>1, <1>2 DEF LobbyInv, Lobby!TypeOK, Lobby!Ids
<1> QED BY <1>3, <1>4
     DEF LobbyInv, Making, Lobby!Ids, Lobby!OnlyTheInvited, Lobby!CodesAreOnesOwn

LEMMA LobbyInvStep ==
  ASSUME Lobby!LobbyAssumption PROVE LobbyInv /\ [Lobby!Next]_(Lobby!vars) => LobbyInv'
<1> SUFFICES ASSUME LobbyInv, [Lobby!Next]_(Lobby!vars) PROVE LobbyInv'
  OBVIOUS
<1>0. /\ MaxTries \in Nat \ {0} /\ MaxRooms \in Nat \ {0}
      /\ rooms \in Seq(Lobby!Row) /\ Len(rooms) \in Nat /\ Lobby!Ids = 1 .. Len(rooms)
      /\ making \in [Makers -> Lobby!Row \cup {None}]
      /\ tries \in [Makers -> [Lobby!Fields -> 0 .. MaxTries]]
      /\ IsFiniteSet(Making) /\ Cardinality(Making) \in Nat
      /\ Len(rooms) + Cardinality(Making) <= MaxRooms
  BY FS_CardinalityType DEF Lobby!LobbyAssumption, LobbyInv, Lobby!TypeOK, Lobby!Ids
<1>1. ASSUME NEW u \in Makers, NEW mode \in Lobby!Modes, NEW password \in BOOLEAN,
             Lobby!CreateRoom(u, mode, password)
      PROVE  LobbyInv'
  <2> DEFINE entry == [code |-> None, inviteCode |-> None, mode |-> mode, host |-> u,
                     password |-> password]
  <2>1. /\ Len(rooms) + Cardinality(Making) < MaxRooms /\ making[u] = None
        /\ making' = [making EXCEPT ![u] = entry]
        /\ tries' = [tries EXCEPT ![u] = [f \in Lobby!Fields |-> 0]]
        /\ UNCHANGED <<rooms, knows, invited, lobby_present, shown, failed>>
    BY <1>1, LobbyCount DEF Lobby!CreateRoom, Making
  <2>2. entry \in Lobby!Row
    BY DEF Lobby!Row
  <2>3. making' \in [Makers -> Lobby!Row \cup {None}]
        /\ tries' \in [Makers -> [Lobby!Fields -> 0 .. MaxTries]]
    BY <1>0, <2>1, <2>2
  <2> HIDE DEF entry
  <2>4. Making' \subseteq Making \cup {u}
    BY <1>0, <2>1 DEF Making
  <2>5. IsFiniteSet(Making \cup {u}) /\ Cardinality(Making \cup {u}) <= Cardinality(Making) + 1
    <3>1. IsFiniteSet(Making \cup {u})
          /\ Cardinality(Making \cup {u})
               = IF u \in Making THEN Cardinality(Making) ELSE Cardinality(Making) + 1
      BY <1>0, FS_AddElement
    <3> QED BY <1>0, <3>1
  <2>6. IsFiniteSet(Making') /\ Cardinality(Making') <= Cardinality(Making \cup {u})
        /\ Cardinality(Making') \in Nat
    BY <2>4, <2>5, FS_Subset, FS_CardinalityType
  <2>7. Cardinality(Making \cup {u}) \in Nat
    BY <2>5, FS_CardinalityType
  <2>8. Len(rooms') + Cardinality(Making') <= MaxRooms
    BY <1>0, <2>1, <2>5, <2>6, <2>7
  <2> QED BY <2>1, <2>3, <2>6, <2>8
       DEF LobbyInv, Lobby!TypeOK, Lobby!Ids, Lobby!OnlyTheInvited, Lobby!CodesAreOnesOwn
<1>2. ASSUME NEW u \in Makers, NEW f \in Lobby!Fields, NEW c \in Codes,
             Lobby!GenerateUniqueCode(u, f, c)
      PROVE  LobbyInv'
  <2>1. /\ making[u] # None /\ tries[u][f] < MaxTries
        /\ tries' = [tries EXCEPT ![u][f] = @ + 1]
        /\ making' = making \/ making' = [making EXCEPT ![u][f] = c]
        /\ UNCHANGED <<rooms, knows, invited, lobby_present, shown, failed>>
    BY <1>2 DEF Lobby!GenerateUniqueCode
  <2>2. tries' \in [Makers -> [Lobby!Fields -> 0 .. MaxTries]]
    <3>1. tries[u] \in [Lobby!Fields -> 0 .. MaxTries] /\ tries[u][f] + 1 \in 0 .. MaxTries
      BY <1>0, <2>1
    <3>2. [tries[u] EXCEPT ![f] = @ + 1] \in [Lobby!Fields -> 0 .. MaxTries]
      BY <3>1
    <3> QED BY <1>0, <2>1, <3>2
  <2>3. making[u] \in Lobby!Row
    BY <1>0, <2>1
  <2>4. [making[u] EXCEPT ![f] = c] \in Lobby!Row
    <3>1. f \in {"code", "inviteCode"}
      BY DEF Lobby!Fields
    <3> QED BY <2>3, <3>1 DEF Lobby!Row
  <2>5. making' \in [Makers -> Lobby!Row \cup {None}]
    BY <1>0, <2>1, <2>4
  <2>6. Making' \subseteq Making
    BY <1>0, <2>1 DEF Making
  <2>7. IsFiniteSet(Making') /\ Cardinality(Making') <= Cardinality(Making)
        /\ Cardinality(Making') \in Nat
    BY <1>0, <2>6, FS_Subset, FS_CardinalityType
  <2>8. Len(rooms') + Cardinality(Making') <= MaxRooms
    BY <1>0, <2>1, <2>7
  <2> QED BY <2>1, <2>2, <2>5, <2>7, <2>8
       DEF LobbyInv, Lobby!TypeOK, Lobby!Ids, Lobby!OnlyTheInvited, Lobby!CodesAreOnesOwn
<1>3. ASSUME NEW u \in Makers, making[u] # None, Lobby!Forget(u)
      PROVE  /\ making' \in [Makers -> Lobby!Row \cup {None}]
             /\ tries' \in [Makers -> [Lobby!Fields -> 0 .. MaxTries]]
             /\ IsFiniteSet(Making') /\ Cardinality(Making') = Cardinality(Making) - 1
  <2>1. making' \in [Makers -> Lobby!Row \cup {None}]
        /\ tries' \in [Makers -> [Lobby!Fields -> 0 .. MaxTries]]
    BY <1>0, <1>3 DEF Lobby!Forget
  <2>2. Making' = Making \ {u} /\ u \in Making
    BY <1>0, <1>3 DEF Lobby!Forget, Making
  <2> QED BY <1>0, <2>1, <2>2, FS_RemoveElement
<1>4. ASSUME NEW u \in Makers, NEW d \in Lobby!Dto \cup {None}, Lobby!Answer(u, d)
      PROVE  shown' \in [Makers -> Lobby!Dto \cup {None}] /\ failed' \subseteq Makers
  BY <1>4 DEF Lobby!Answer, LobbyInv, Lobby!TypeOK
<1>5. ASSUME NEW u \in Makers, making[u] # None, Lobby!Forget(u), Lobby!Answer(u, None),
             UNCHANGED <<rooms, knows, invited, lobby_present>>
      PROVE  LobbyInv'
  <2>1. Lobby!TypeOK'
    BY <1>0, <1>3, <1>4, <1>5 DEF LobbyInv, Lobby!TypeOK, Lobby!Ids
  <2>2. Len(rooms') + Cardinality(Making') <= MaxRooms
    BY <1>0, <1>3, <1>5
  <2> QED BY <1>3, <1>5, <2>1, <2>2
       DEF LobbyInv, Lobby!Ids, Lobby!OnlyTheInvited, Lobby!CodesAreOnesOwn
<1>6. ASSUME NEW u \in Makers, Lobby!GiveUp(u) PROVE LobbyInv'
  BY <1>5, <1>6 DEF Lobby!GiveUp
<1>7. ASSUME NEW u \in Makers, Lobby!Insert(u) PROVE LobbyInv'
  <2> DEFINE id == Len(rooms) + 1
             entry == making[u]
             dto == [Lobby!ToRoomDto(id, entry) EXCEPT !.inviteCode = entry.inviteCode]
  <2>1. making[u] # None /\ Lobby!Forget(u) /\ \A f \in Lobby!Fields : entry[f] # None
    BY <1>7 DEF Lobby!Insert
  <2>2. CASE \E f \in Lobby!Fields : Lobby!Clash(f, entry[f])
    BY <1>5, <1>7, <2>1, <2>2 DEF Lobby!Insert
  <2>3. CASE \A f \in Lobby!Fields : ~Lobby!Clash(f, entry[f])
    <3>1. /\ rooms' = Append(rooms, entry)
          /\ knows' = knows \cup {<<u, id>>} /\ invited' = invited \cup {<<u, id>>}
          /\ lobby_present' = lobby_present \cup {<<u, id>>} /\ Lobby!Answer(u, dto)
      BY <1>7, <2>3 DEF Lobby!Insert
    <3>2. entry \in Lobby!Row /\ entry.inviteCode # None
      BY <1>0, <2>1 DEF Lobby!Fields
    <3>3. /\ rooms' \in Seq(Lobby!Row) /\ Len(rooms') = id /\ Lobby!Ids' = Lobby!Ids \cup {id}
          /\ rooms'[id] = entry /\ \A r \in Lobby!Ids : rooms'[r] = rooms[r]
          /\ id \notin Lobby!Ids
      <4> HIDE DEF entry
      <4> QED BY <1>0, <3>1, <3>2 DEF Lobby!Ids
    <3>4. IsFiniteSet(Making') /\ Cardinality(Making') = Cardinality(Making) - 1
      BY <1>3, <2>1
    <3>5. Len(rooms') + Cardinality(Making') <= MaxRooms /\ id <= MaxRooms
      <4>1. Cardinality(Making) >= 1
        BY <1>0, <3>4, FS_CardinalityType
      <4> QED BY <1>0, <3>3, <3>4, <4>1
    <3>6. dto \in Lobby!Dto
      <4>1. id \in 1 .. MaxRooms
        BY <1>0, <3>5
      <4>2. /\ entry.mode \in Lobby!Modes /\ entry.inviteCode \in Codes \cup {None}
        BY <3>2 DEF Lobby!Row
      <4> HIDE DEF id, entry
      <4>3. Lobby!ToRoomDto(id, entry) \in Lobby!Dto
        BY <4>1, <4>2 DEF Lobby!ToRoomDto, Lobby!Dto
      <4> QED BY <4>2, <4>3 DEF Lobby!Dto
    <3>7. Lobby!TypeOK'
      <4> HIDE DEF dto, id, entry
      <4>1. knows' \subseteq Makers \X Lobby!Ids' /\ invited' \subseteq Makers \X Lobby!Ids'
            /\ lobby_present' \subseteq Makers \X Lobby!Ids'
        BY <3>1, <3>3 DEF LobbyInv, Lobby!TypeOK
      <4> QED BY <1>3, <1>4, <2>1, <3>1, <3>3, <3>5, <3>6, <4>1 DEF Lobby!TypeOK
    <3>8. knows \subseteq Makers \X Lobby!Ids /\ lobby_present \subseteq Makers \X Lobby!Ids
      BY DEF LobbyInv, Lobby!TypeOK
    <3> HIDE DEF dto, id, entry
    <3>9. \A r \in Lobby!Ids' : rooms'[r].mode = "PRIVATE" => rooms'[r].inviteCode # None
      BY <3>2, <3>3 DEF LobbyInv
    <3>10. /\ \A k \in knows' : rooms'[k[2]].mode = "PRIVATE" => k \in invited'
           /\ \A p \in lobby_present' : rooms'[p[2]].mode = "PRIVATE" => p \in invited'
      BY <3>1, <3>3, <3>8 DEF LobbyInv, Lobby!OnlyTheInvited
    <3>11. Lobby!CodesAreOnesOwn'
      <4> SUFFICES ASSUME NEW q \in Lobby!Ids', NEW r \in Lobby!Ids', NEW f \in Lobby!Fields,
          q # r,
                          rooms'[q][f] # None
                   PROVE  rooms'[q][f] # rooms'[r][f]
        BY DEF Lobby!CodesAreOnesOwn
      <4>1. \A s \in Lobby!Ids : rooms[s][f] # entry[f]
        BY <2>3 DEF Lobby!Clash, entry
      <4> QED BY <3>3, <4>1 DEF LobbyInv, Lobby!CodesAreOnesOwn
    <3> QED BY <3>4, <3>5, <3>7, <3>9, <3>10, <3>11 DEF LobbyInv, Lobby!OnlyTheInvited
  <2> QED BY <2>2, <2>3
<1>8. ASSUME NEW u \in Makers, Lobby!Break(u) PROVE LobbyInv'
  BY <1>8 DEF Lobby!Break, LobbyInv, Lobby!TypeOK, Making, Lobby!Ids, Lobby!OnlyTheInvited,
       Lobby!CodesAreOnesOwn
<1>9. ASSUME NEW u \in Makers, NEW mode \in Lobby!Modes
             \cup {None}, NEW r \in Lobby!Ids, Lobby!ListRooms(u, mode, r)
      PROVE  LobbyInv'
  <2>1. CASE ~TRUE
    BY <1>8, <1>9, <2>1 DEF Lobby!ListRooms
  <2>2. CASE TRUE
    <3> DEFINE d == Lobby!ToRoomDto(r, rooms[r])
    <3>1. /\ Lobby!Answer(u, d) /\ knows' = Lobby!Learned(u, d)
          /\ UNCHANGED <<rooms, making, tries, invited, lobby_present>>
      BY <1>9, <2>2 DEF Lobby!ListRooms
    <3>2. d \in Lobby!Dto /\ d.id = r /\ (rooms[r].mode = "PRIVATE" => d.inviteCode = None)
      BY Told DEF Lobby!ToRoomDto
    <3>3. /\ lobby_present' \subseteq Makers \X Lobby!Ids
          /\ \A p \in lobby_present' : rooms[p[2]].mode = "PRIVATE" => p \in invited
      BY <3>1 DEF LobbyInv, Lobby!TypeOK, Lobby!OnlyTheInvited
    <3> HIDE DEF d
    <3> QED BY <3>1, <3>2, <3>3, Answered
  <2> QED BY <2>1, <2>2
<1>10. ASSUME NEW u \in Makers, NEW v \in Makers, NEW r \in Lobby!Ids, Lobby!Tell(u, v, r)
              PROVE LobbyInv'
  BY <1>10 DEF Lobby!Tell, LobbyInv, Lobby!TypeOK, Making, Lobby!Ids, Lobby!OnlyTheInvited,
       Lobby!CodesAreOnesOwn
<1>11. ASSUME NEW u \in Makers, NEW r \in Lobby!Ids, Lobby!JoinRoom(u, r) PROVE LobbyInv'
  <2>1. CASE ~TRUE
    BY <1>8, <1>11, <2>1 DEF Lobby!JoinRoom
  <2>2. CASE TRUE
    <3> DEFINE d == [Lobby!ToRoomDto(r, rooms[r]) EXCEPT !.passwordProtected =
        rooms[r].password]
    <3>1. /\ Lobby!Answer(u, d) /\ knows' = Lobby!Learned(u, d)
               /\ lobby_present' = lobby_present \cup {<<u, r>>}
          /\ UNCHANGED <<rooms, making, tries, invited>> /\ Lobby!Admitted(u, r)
      BY <1>11, <2>2 DEF Lobby!JoinRoom
    <3>2. rooms[r].password \in BOOLEAN
      <4>1. rooms[r] \in Lobby!Row
        BY <1>0
      <4> QED BY <4>1 DEF Lobby!Row
    <3>3. d \in Lobby!Dto /\ d.id = r /\ (rooms[r].mode = "PRIVATE" => d.inviteCode = None)
      BY <3>2, Told DEF Lobby!ToRoomDto
    <3>4. rooms[r].mode = "PRIVATE" => <<u, r>> \in invited
      BY <3>1 DEF LobbyInv, Lobby!Admitted
    <3>5. /\ lobby_present' \subseteq Makers \X Lobby!Ids
          /\ \A p \in lobby_present' : rooms[p[2]].mode = "PRIVATE" => p \in invited
      <4> HIDE DEF d
      <4>1. lobby_present \subseteq Makers \X Lobby!Ids /\ <<u, r>> \in Makers \X Lobby!Ids
        BY DEF LobbyInv, Lobby!TypeOK
      <4>2. ASSUME NEW p \in lobby_present', rooms[p[2]].mode = "PRIVATE" PROVE p \in invited
        <5>1. CASE p \in lobby_present
          BY <4>2, <5>1 DEF LobbyInv, Lobby!OnlyTheInvited
        <5>2. CASE p = <<u, r>>
          <6>1. p[2] = r
            BY <5>2
          <6> QED BY <3>4, <4>2, <5>2, <6>1
        <5> QED BY <3>1, <5>1, <5>2
      <4> QED BY <3>1, <4>1, <4>2
    <3> HIDE DEF d
    <3> QED BY <3>1, <3>3, <3>5, Answered
  <2> QED BY <2>1, <2>2
<1>12. CASE UNCHANGED Lobby!vars
  BY <1>12 DEF Lobby!vars, LobbyInv, Lobby!TypeOK, Making, Lobby!Ids, Lobby!OnlyTheInvited,
       Lobby!CodesAreOnesOwn
<1> QED BY <1>1, <1>2, <1>6, <1>7, <1>9, <1>10, <1>11, <1>12 DEF Lobby!Next, Lobby!Draw

\* Whoever is in a private room was invited by its host or by one of the invited, and no two
\* rooms have one code (createRoom, joinRoom).
THEOREM LobbySafe ==
  ASSUME Lobby!LobbyAssumption
           PROVE Lobby!Spec => [](Lobby!TypeOK /\ Lobby!OnlyTheInvited /\ Lobby!CodesAreOnesOwn)
<1>1. LobbyInv => Lobby!TypeOK /\ Lobby!OnlyTheInvited /\ Lobby!CodesAreOnesOwn
  BY DEF LobbyInv
<1> QED BY LobbyInvInit, LobbyInvStep, <1>1, PTL DEF Lobby!Spec

(* The rounds clients ask for (module RoundView). *)

Row == [state : View!Live \cup {"SETTLED"}, endedAt : {Null, 0}, seed : {"seed"},
        cards : {Null, "cards"},
        outcome : RoundOutcomes \cup {Null}, bets : SUBSET Viewers]

ViewInv ==
    /\ view_age \in 0 .. Betting + Drawing
    /\ rounds \in Seq(Row) /\ Len(rounds) <= MaxRounds
    /\ known \in [1 .. MaxRounds -> SUBSET {"seed", "cards", "outcome"}]
    /\ proved \in [1 .. MaxRounds -> SUBSET {"seed", "cards", "outcome", "recomputed"}]
    /\ history \in [Viewers -> SUBSET DOMAIN rounds]
    /\ \A r \in DOMAIN rounds :
          /\ (rounds[r].endedAt = Null) = (rounds[r].state = "BETTING")
          /\ rounds[r].state \in View!Live => /\ r = Len(rounds) /\ known[r] = {}
                                         /\ proved[r] \subseteq {"seed", "recomputed"}
                                         /\ rounds[r].cards = Null /\ rounds[r].outcome = Null
    /\ \A r \in 1 .. MaxRounds : known[r] \cup proved[r] # {} => r \in DOMAIN rounds
    /\ \A u \in Viewers : history[u] \subseteq View!HistoryOf(u)

LEMMA ViewInvInit == ASSUME View!RoundViewAssumption PROVE View!Init => ViewInv
  BY DEF View!RoundViewAssumption, View!Init, ViewInv, View!Live

\* What the engine and the players change: one entry, which no settled entry is.
LEMMA Rewritten ==
  ASSUME View!RoundViewAssumption, ViewInv, NEW r \in DOMAIN rounds,
           rounds[r].state \in View!Live,
         NEW entry \in Row, rounds' = [rounds EXCEPT ![r] = entry],
         (entry.endedAt = Null) = (entry.state = "BETTING"),
         entry.state \in View!Live => entry.cards = Null /\ entry.outcome = Null,
         view_age' \in 0 .. Betting + Drawing, UNCHANGED <<known, proved, history>>
  PROVE  ViewInv'
<1>1. /\ rounds' \in Seq(Row) /\ Len(rounds') = Len(rounds) /\ DOMAIN rounds' = DOMAIN rounds
      /\ rounds'[r] = entry /\ \A s \in DOMAIN rounds \ {r} : rounds'[s] = rounds[s]
  BY DEF ViewInv
<1>2. \A u \in Viewers : View!HistoryOf(u) \subseteq View!HistoryOf(u)'
  BY <1>1 DEF View!HistoryOf, View!Settled, View!Live
<1> QED BY <1>1, <1>2 DEF ViewInv

LEMMA ViewInvStep == ASSUME View!RoundViewAssumption
  PROVE ViewInv /\ [View!Next]_(View!vars) => ViewInv'
<1> SUFFICES ASSUME ViewInv, [View!Next]_(View!vars) PROVE ViewInv'
  OBVIOUS
<1>0. /\ Betting \in Nat \ {0} /\ Drawing \in Nat \ {0} /\ MaxRounds \in Nat /\ Null # 0
      /\ rounds \in Seq(Row) /\ DOMAIN rounds = 1 .. Len(rounds) /\ Len(rounds) \in Nat
      /\ Len(rounds) <= MaxRounds
      /\ view_age \in 0 .. Betting + Drawing
  BY DEF View!RoundViewAssumption, ViewInv
<1>1. CASE View!OpenRound
  <2>1. /\ rounds' = Append(rounds, View!NewRound) /\ view_age' = 0 /\ Len(rounds) < MaxRounds
        /\ \A r \in DOMAIN rounds : rounds[r].state \notin View!Live
        /\ UNCHANGED <<known, proved, history>>
    BY <1>1 DEF View!OpenRound, View!Current
  <2>2. View!NewRound \in Row /\ View!NewRound.state = "BETTING" /\ View!NewRound.endedAt = Null
        /\ View!NewRound.cards = Null /\ View!NewRound.outcome = Null
    BY DEF View!NewRound, Row, View!Live
  <2>3. /\ rounds' \in Seq(Row) /\ Len(rounds') = Len(rounds) + 1
        /\ DOMAIN rounds' = 1 .. Len(rounds) + 1
        /\ rounds'[Len(rounds) + 1] = View!NewRound
        /\ \A r \in DOMAIN rounds : rounds'[r] = rounds[r]
    BY <1>0, <2>1, <2>2
  <2>4. \A u \in Viewers : View!HistoryOf(u) \subseteq View!HistoryOf(u)'
    BY <1>0, <2>3 DEF View!HistoryOf, View!Settled
  <2>5. known[Len(rounds) + 1] = {} /\ proved[Len(rounds) + 1] = {}
    BY <1>0, <2>1 DEF ViewInv
  <2>6. ASSUME NEW r \in DOMAIN rounds'
        PROVE  /\ (rounds'[r].endedAt = Null) = (rounds'[r].state = "BETTING")
               /\ rounds'[r].state \in View!Live =>
                     /\ r = Len(rounds') /\ known'[r] = {}
                     /\ proved'[r] \subseteq {"seed", "recomputed"}
                     /\ rounds'[r].cards = Null /\ rounds'[r].outcome = Null
    <3>1. CASE r = Len(rounds) + 1
      BY <2>1, <2>2, <2>3, <2>5, <3>1
    <3>2. CASE r \in DOMAIN rounds
      BY <2>1, <2>3, <3>2 DEF ViewInv
    <3> QED BY <1>0, <2>3, <3>1, <3>2
  <2>7. \A r \in 1 .. MaxRounds : known'[r] \cup proved'[r] # {} => r \in DOMAIN rounds'
    BY <1>0, <2>1, <2>3 DEF ViewInv
  <2>8. history' \in [Viewers -> SUBSET DOMAIN rounds']
    BY <1>0, <2>1, <2>3 DEF ViewInv
  <2>9. \A u \in Viewers : history'[u] \subseteq View!HistoryOf(u)'
    BY <2>1, <2>4 DEF ViewInv
  <2>10. view_age' \in 0 .. Betting + Drawing /\ Len(rounds') <= MaxRounds
         /\ known' \in [1 .. MaxRounds -> SUBSET {"seed", "cards", "outcome"}]
         /\ proved' \in [1 .. MaxRounds -> SUBSET {"seed", "cards", "outcome", "recomputed"}]
    BY <1>0, <2>1, <2>3 DEF ViewInv
  <2> QED BY <2>3, <2>6, <2>7, <2>8, <2>9, <2>10 DEF ViewInv
<1>2. ASSUME NEW r \in DOMAIN rounds, View!BeginDrawing(r) PROVE ViewInv'
  <2> DEFINE entry == [rounds[r] EXCEPT !.state = "DRAWING", !.endedAt = 0]
  <2>1. /\ rounds[r].state = "BETTING" /\ rounds' = [rounds EXCEPT ![r] = entry]
        /\ view_age' = 0 /\ UNCHANGED <<known, proved, history>>
    BY <1>0, <1>2 DEF View!BeginDrawing
  <2>2. rounds[r] \in Row /\ rounds[r].cards = Null /\ rounds[r].outcome = Null
    BY <1>0, <2>1 DEF ViewInv, View!Live
  <2>3. /\ entry \in Row /\ entry.state = "DRAWING" /\ entry.endedAt = 0
        /\ entry.cards = Null /\ entry.outcome = Null
    BY <2>2 DEF Row, View!Live
  <2> HIDE DEF entry
  <2>4. (entry.endedAt = Null) = (entry.state = "BETTING") /\ view_age' \in 0 .. Betting + Drawing
    BY <1>0, <2>1, <2>3
  <2> QED BY <2>1, <2>3, <2>4, Rewritten DEF View!Live
<1>3. ASSUME NEW r \in DOMAIN rounds, View!SettleRound(r) PROVE ViewInv'
  <2>1. PICK o \in RoundOutcomes :
          rounds' = [rounds EXCEPT ![r].state = "SETTLED", ![r].cards = "cards", ![r].outcome =
            o]
    BY <1>3 DEF View!SettleRound
  <2> DEFINE entry == [rounds[r] EXCEPT !.state = "SETTLED", !.cards = "cards", !.outcome = o]
  <2>2. /\ rounds[r].state = "DRAWING" /\ rounds' = [rounds EXCEPT ![r] = entry]
        /\ UNCHANGED <<view_age, known, proved, history>>
    BY <1>0, <1>3, <2>1 DEF View!SettleRound
  <2>3. rounds[r] \in Row /\ rounds[r].endedAt # Null
    BY <1>0, <2>2 DEF ViewInv
  <2>4. entry \in Row /\ entry.state = "SETTLED" /\ entry.endedAt # Null
    BY <2>3 DEF Row, View!Live
  <2> HIDE DEF entry
  <2> QED BY <1>0, <2>2, <2>4, Rewritten DEF View!Live
<1>4. ASSUME NEW r \in DOMAIN rounds, NEW u \in Viewers, View!PlaceBet(u, r) PROVE ViewInv'
  <2> DEFINE entry == [rounds[r] EXCEPT !.bets = @ \cup {u}]
  <2>1. /\ rounds[r].state = "BETTING" /\ rounds' = [rounds EXCEPT ![r] = entry]
        /\ UNCHANGED <<view_age, known, proved, history>>
    BY <1>0, <1>4 DEF View!PlaceBet
  <2>2. /\ rounds[r] \in Row /\ rounds[r].cards = Null /\ rounds[r].outcome = Null
        /\ rounds[r].endedAt = Null
    BY <1>0, <2>1 DEF ViewInv, View!Live
  <2>3. /\ entry \in Row /\ entry.state = "BETTING" /\ entry.endedAt = Null
        /\ entry.cards = Null /\ entry.outcome = Null
    BY <2>1, <2>2 DEF Row
  <2> HIDE DEF entry
  <2> QED BY <1>0, <2>1, <2>3, Rewritten DEF View!Live
<1>5. CASE View!Tick
  BY <1>0, <1>5 DEF View!Tick, ViewInv, View!HistoryOf
<1>6. \A r \in DOMAIN rounds :
        /\ View!Shown(View!ToRoundDto(r)) \subseteq {"seed", "cards", "outcome"}
        /\ rounds[r].state \in View!Live => View!Shown(View!ToRoundDto(r)) = {}
  BY DEF ViewInv, View!Shown, View!ToRoundDto, View!Settled, View!Drawn, View!Live
<1>7. ASSUME NEW r \in DOMAIN rounds, View!Tell(r), UNCHANGED <<view_age, rounds, proved, history>>
             PROVE ViewInv'
  <2>1. known' = [known EXCEPT ![r] = @ \cup View!Shown(View!ToRoundDto(r))]
        /\ r \in 1 .. MaxRounds
    BY <1>0, <1>7 DEF View!Tell
  <2>2. \A u \in Viewers : View!HistoryOf(u)' = View!HistoryOf(u)
    BY <1>7 DEF View!HistoryOf
  <2>3. known \in [1 .. MaxRounds -> SUBSET {"seed", "cards", "outcome"}]
    BY DEF ViewInv
  <2>4. /\ known' \in [1 .. MaxRounds -> SUBSET {"seed", "cards", "outcome"}]
        /\ \A q \in 1 .. MaxRounds : q # r => known'[q] = known[q]
        /\ rounds[r].state \in View!Live => known'[r] = known[r]
    BY <1>6, <2>1, <2>3
  <2> QED BY <1>0, <1>7, <2>1, <2>2, <2>4 DEF ViewInv
<1>8. ASSUME NEW u \in Viewers, View!GetHistory(u) PROVE ViewInv'
  <2>1. /\ history' = [history EXCEPT ![u] = View!HistoryOf(u)]
        /\ known' = [r \in 1 .. MaxRounds |->
                        known[r] \cup IF r \in View!HistoryOf(u)
                          THEN View!Shown(View!ToRoundDto(r)) ELSE {}]
        /\ UNCHANGED <<view_age, rounds, proved>>
    BY <1>8 DEF View!GetHistory, ViewInv
  <2>2. \A v \in Viewers : View!HistoryOf(v)' = View!HistoryOf(v)
        /\ View!HistoryOf(v) \subseteq DOMAIN rounds
    BY <2>1 DEF View!HistoryOf
  <2>3. \A r \in View!HistoryOf(u) : rounds[r].state \notin View!Live
    BY DEF View!HistoryOf, View!Settled, View!Live
  <2> QED BY <1>0, <1>6, <2>1, <2>2, <2>3 DEF ViewInv
<1>9. CASE UNCHANGED View!vars
  BY <1>9 DEF View!vars, ViewInv, View!HistoryOf
<1>10. CASE View!GetCurrentRound
  BY <1>7, <1>10 DEF View!GetCurrentRound, View!Current
<1>11. ASSUME NEW r \in DOMAIN rounds, View!VerifyRound(r) PROVE ViewInv'
  <2>1. /\ proved' = [proved EXCEPT ![r] = @ \cup View!Proof(rounds[r])]
        /\ UNCHANGED <<view_age, rounds, known, history>> /\ r \in 1 .. MaxRounds
    BY <1>0, <1>11 DEF View!VerifyRound
  <2>2. /\ View!Proof(rounds[r]) \subseteq {"seed", "cards", "outcome", "recomputed"}
        /\ rounds[r].state \in View!Live => View!Proof(rounds[r]) \subseteq {"seed", "recomputed"}
    BY DEF ViewInv, View!Proof
  <2>3. proved \in [1 .. MaxRounds -> SUBSET {"seed", "cards", "outcome", "recomputed"}]
    BY DEF ViewInv
  <2>4. /\ proved' \in [1 .. MaxRounds -> SUBSET {"seed", "cards", "outcome", "recomputed"}]
        /\ \A q \in 1 .. MaxRounds : q # r => proved'[q] = proved[q]
        /\ proved'[r] = proved[r] \cup View!Proof(rounds[r])
    BY <2>1, <2>2, <2>3
  <2>5. \A u \in Viewers : View!HistoryOf(u)' = View!HistoryOf(u)
    BY <2>1 DEF View!HistoryOf
  <2> QED BY <1>0, <2>1, <2>2, <2>4, <2>5 DEF ViewInv
<1> QED BY <1>1, <1>2, <1>3, <1>4, <1>5, <1>7, <1>8, <1>9, <1>10, <1>11
     DEF View!Next, View!Engine, View!GetRound

\* No round answer shows the outcome, the cards or the seed of a round that is not settled, no
\* fairness answer the cards or the outcome recorded, and the history a player was shown only
\* grows (toRoundDto, verifyRound, getHistory).
THEOREM ViewSafe ==
  ASSUME View!RoundViewAssumption
  PROVE  View!Spec => [](View!TypeOK /\ View!RoundsWithhold)
           /\ [][View!HistoryKept]_(View!vars)
<1>1. ViewInv => View!TypeOK /\ View!RoundsWithhold
  <2> SUFFICES ASSUME ViewInv PROVE View!TypeOK /\ View!RoundsWithhold
    OBVIOUS
  <2>1. \A r \in DOMAIN rounds : rounds[r] \in Row
    BY DEF ViewInv
  <2>2. \A r \in DOMAIN rounds : rounds[r].state \in View!Live \cup {"SETTLED"}
        /\ rounds[r].bets \subseteq Viewers
    BY <2>1 DEF Row
  <2> QED BY <2>2 DEF ViewInv, View!TypeOK, View!RoundsWithhold, View!Current, View!Live
<1>2. ViewInv /\ [View!Next]_(View!vars) => [View!HistoryKept]_(View!vars)
  <2> SUFFICES ASSUME ViewInv, View!Next, NEW u \in Viewers
               PROVE  history[u] \subseteq history'[u]
                        /\ \A r \in history'[u] : u \in rounds[r].bets
    BY DEF View!HistoryKept
  <2>1. history[u] \subseteq View!HistoryOf(u)
        /\ \A r \in View!HistoryOf(u) : u \in rounds[r].bets
    BY DEF ViewInv, View!HistoryOf
  <2>2. history'[u] \in {history[u], View!HistoryOf(u)}
    BY DEF View!Next, View!Engine, View!OpenRound, View!BeginDrawing, View!SettleRound,
         View!Tick, View!GetCurrentRound, View!PlaceBet,
         View!GetRound, View!GetHistory, View!VerifyRound, ViewInv
  <2> QED BY <2>1, <2>2
<1> QED BY ViewInvInit, ViewInvStep, <1>1, <1>2, PTL DEF View!Spec

(* The settings and the bets under them (module GameConfig). *)

PlacedBet == [room : TunedRooms, side : Config!Sides, amount : Nat]
CallAt == {"idle", "bounds", "commit", "refused", "placed", "won", "over"}

ConfigTypes ==
    /\ setting \in [Config!Keys -> Nat \cup BOOLEAN \cup {Garbled, Unset}]
    /\ \A k \in Config!Keys : setting[k] \in Config!Texts(k) \cup {Unset}
    /\ config_room \in [TunedRooms -> Config!Ranges \cup {Unset}]
    /\ \A r \in TunedRooms : config_room[r] # Unset => config_room[r].min <= config_room[r].max
    /\ round \in [TunedRooms -> {"none", "betting", "drawing"}]
         /\ window \in [TunedRooms -> Nat]
    /\ bet \in [Players -> PlacedBet \cup {Unset}] /\ config_pc \in [Players -> CallAt]
    /\ payout \in [Players -> Nat] /\ inForce \in [Players -> BOOLEAN]

ConfigInv ==
    /\ ConfigTypes
    /\ \A p \in Players : config_pc[p] # "idle"
         => bet[p] \in PlacedBet /\ config_room[bet[p].room] # Unset
    /\ \A p \in Players : config_pc[p] = "bounds" /\ Config!InRange(setting, bet[p].amount)
         => inForce[p]
    /\ Config!StakeInForce

LEMMA PlatformType ==
  ASSUME Config!GameConfigAssumption PROVE Config!MinBet \in Nat /\ Config!MaxBet \in Nat
  BY DEF Config!MinBet, Config!MaxBet, Config!Platform, Config!Read, Config!GameConfigAssumption

LEMMA ConfigInvInit == ASSUME Config!GameConfigAssumption PROVE Config!Init => ConfigInv
<1> SUFFICES ASSUME Config!Init PROVE ConfigInv
  OBVIOUS
<1>1. /\ setting \in [Config!Keys -> Nat \cup BOOLEAN \cup {Garbled, Unset}]
      /\ \A k \in Config!Keys : setting[k] = Unset
      /\ config_room \in [TunedRooms -> Config!Ranges \cup {Unset}]
           /\ \A r \in TunedRooms : config_room[r] = Unset
  BY DEF Config!Init
<1>2. /\ round \in [TunedRooms -> {"none", "betting", "drawing"}]
           /\ window \in [TunedRooms -> Nat]
      /\ bet \in [Players -> PlacedBet \cup {Unset}] /\ config_pc \in [Players -> CallAt]
      /\ payout \in [Players -> Nat] /\ inForce \in [Players -> BOOLEAN]
      /\ \A p \in Players : config_pc[p] = "idle"
  BY DEF Config!Init, Config!EnvWindow, CallAt
<1> QED BY <1>1, <1>2 DEF ConfigInv, ConfigTypes, Config!StakeInForce

LEMMA ConfigInvStep ==
  ASSUME Config!GameConfigAssumption
           PROVE ConfigInv /\ [Config!Next]_(Config!vars) => ConfigInv'
<1> SUFFICES ASSUME ConfigInv, [Config!Next]_(Config!vars) PROVE ConfigInv'
  OBVIOUS
<1>0. Config!MinBet \in Nat /\ Config!MaxBet \in Nat /\ TunedCoins \subseteq Nat
  BY PlatformType DEF Config!GameConfigAssumption
<1>1. ASSUME NEW key \in Tuned, Config!UpsertAppSetting(key) PROVE ConfigInv'
  <2>1. PICK text \in Config!Texts(key) :
          LET new == [setting EXCEPT ![key] = text] IN
          /\ setting' = new
          /\ inForce' = [p \in Players |->
                            inForce[p] \/ (config_pc[p] = "bounds"
                              /\ Config!InRange(new, bet[p].amount))]
    BY <1>1 DEF Config!UpsertAppSetting
  <2>2. /\ setting' = [setting EXCEPT ![key] = text]
        /\ inForce' = [p \in Players |->
                          inForce[p] \/ (config_pc[p] = "bounds"
                            /\ Config!InRange(setting', bet[p].amount))]
        /\ UNCHANGED <<config_room, round, window, bet, config_pc, payout>>
    BY <1>1, <2>1 DEF Config!UpsertAppSetting, Config!engine
  <2>3. key \in Config!Keys /\ text \in Nat \cup BOOLEAN \cup {Garbled, Unset}
    <3>1. key \in Config!Keys
      BY DEF Config!GameConfigAssumption
    <3>2. CASE key = "game.maintenance"
      <4>1. text \in {TRUE, FALSE, Garbled}
        BY <3>2, Zenon DEF Config!Texts
      <4> QED BY <3>1, <4>1, Zenon
    <3>3. CASE key # "game.maintenance"
      <4>1. text \in {10, Garbled} \cup TunedCoins
        BY <3>3 DEF Config!Texts
      <4>2. text \in Nat \cup {Garbled}
        BY <1>0, <4>1
      <4> QED BY <3>1, <4>2, Zenon
    <3> QED BY <3>2, <3>3
  <2>4. /\ setting' \in [Config!Keys -> Nat \cup BOOLEAN \cup {Garbled, Unset}]
        /\ \A k \in Config!Keys : setting'[k] \in Config!Texts(k) \cup {Unset}
    BY <2>2, <2>3 DEF ConfigInv, ConfigTypes
  <2>5. inForce' \in [Players -> BOOLEAN]
    BY <2>2 DEF ConfigInv, ConfigTypes
  <2>6. ASSUME NEW p \in Players
        PROVE  inForce'[p] = (inForce[p]
                 \/ (config_pc[p] = "bounds" /\ Config!InRange(setting', bet[p].amount)))
    BY <2>2
  <2> QED BY <2>2, <2>4, <2>5, <2>6 DEF ConfigInv, ConfigTypes, Config!StakeInForce
<1>2. ASSUME NEW r \in TunedRooms, Config!CreateRoom(r) PROVE ConfigInv'
  <2>1. PICK low \in TunedCoins \cup {Config!MinBet}, high \in TunedCoins \cup {Config!MaxBet} :
          low <= high /\ config_room' = [config_room EXCEPT ![r] = [min |-> low, max |-> high]]
    BY <1>2 DEF Config!CreateRoom
  <2>2. [min |-> low, max |-> high] \in Config!Ranges
    BY <1>0 DEF Config!Ranges
  <2>3. /\ config_room' \in [TunedRooms -> Config!Ranges \cup {Unset}]
        /\ \A s \in TunedRooms : config_room'[s] # Unset
             => config_room'[s].min <= config_room'[s].max
    BY <2>1, <2>2 DEF ConfigInv, ConfigTypes
  <2>4. config_room[r] = Unset
        /\ UNCHANGED <<setting, round, window, bet, config_pc, payout, inForce>>
    BY <1>2 DEF Config!CreateRoom, Config!engine, Config!bets
  <2>5. \A s \in TunedRooms \ {r} : config_room'[s] = config_room[s]
    BY <2>1 DEF ConfigInv, ConfigTypes
  <2>6. \A p \in Players : config_pc[p] # "idle"
        => bet[p] \in PlacedBet /\ bet[p].room \in TunedRooms \ {r}
    BY <2>4 DEF ConfigInv, PlacedBet
  <2>7. \A p \in Players : config_pc[p] # "idle" => config_room'[bet[p].room] # Unset
    BY <2>5, <2>6 DEF ConfigInv
  <2> QED BY <2>3, <2>4, <2>6, <2>7 DEF ConfigInv, ConfigTypes, Config!StakeInForce
<1>3. ASSUME NEW p \in Players, NEW r \in TunedRooms, NEW side \in Config!Sides,
             NEW amount \in TunedCoins \ {0},
             Config!PlaceBet(p, r, side, amount)
      PROVE  ConfigInv'
  <2> DEFINE stake == [room |-> r, side |-> side, amount |-> amount]
  <2>1. /\ bet' = [bet EXCEPT ![p] = stake] /\ config_room[r] # Unset
        /\ inForce' = [inForce EXCEPT ![p] = Config!InRange(setting, amount)]
        /\ config_pc' = [config_pc EXCEPT ![p] = "bounds"]
        /\ UNCHANGED <<setting, config_room, round, window, payout>>
    BY <1>3 DEF Config!PlaceBet, Config!engine
  <2>2. stake \in PlacedBet /\ stake.room = r /\ stake.amount = amount
    BY <1>0 DEF PlacedBet
  <2>3. Config!InRange(setting, amount) \in BOOLEAN
    BY DEF Config!InRange
  <2> HIDE DEF stake
  <2>4. /\ bet' \in [Players -> PlacedBet \cup {Unset}] /\ bet'[p] = stake
        /\ \A q \in Players \ {p} : bet'[q] = bet[q]
        /\ inForce' \in [Players -> BOOLEAN] /\ inForce'[p] = Config!InRange(setting, amount)
        /\ \A q \in Players \ {p} : inForce'[q] = inForce[q]
        /\ config_pc' \in [Players -> CallAt] /\ config_pc'[p] = "bounds"
        /\ \A q \in Players \ {p} : config_pc'[q] = config_pc[q]
    BY <2>1, <2>2, <2>3 DEF ConfigInv, ConfigTypes, CallAt
  <2> QED BY <2>1, <2>2, <2>4 DEF ConfigInv, ConfigTypes, Config!StakeInForce
<1>4. ASSUME NEW p \in Players, Config!CheckBounds(p) PROVE ConfigInv'
  <2>1. /\ config_pc[p] = "bounds" /\ bet[p] \in PlacedBet /\ config_room[bet[p].room] # Unset
        /\ UNCHANGED <<setting, config_room, round, window, bet, payout, inForce>>
    BY <1>4 DEF Config!CheckBounds, Config!engine, ConfigInv
  <2> DEFINE b == Config!StakeBounds(bet[p].room)
             inside == bet[p].amount >= b.min /\ bet[p].amount <= b.max
  <2>2. config_pc' = [config_pc EXCEPT ![p] = IF inside THEN "commit" ELSE "refused"]
    BY <1>4 DEF Config!CheckBounds
  <2>3. inside => Config!InRange(setting, bet[p].amount)
    <3>1. bet[p].amount \in Nat /\ bet[p].room \in TunedRooms
      BY <2>1 DEF PlacedBet
    <3>2. config_room[bet[p].room].min \in Nat /\ config_room[bet[p].room].max \in Nat
      BY <2>1, <3>1 DEF ConfigInv, ConfigTypes, Config!Ranges
    <3>3. b.min >= Config!MinBet /\ b.max <= Config!MaxBet /\ b.min \in Nat /\ b.max \in Nat
      BY <1>0, <3>2 DEF Config!StakeBounds
    <3> HIDE DEF b
    <3>4. inside => Config!MinBet <= bet[p].amount /\ bet[p].amount <= Config!MaxBet
      BY <1>0, <3>1, <3>3
    <3> QED BY <3>4 DEF Config!InRange, Config!MinBet, Config!MaxBet
  <2>4. inside => inForce[p]
    BY <2>1, <2>3 DEF ConfigInv
  <2> HIDE DEF inside
  <2>5. /\ config_pc' \in [Players -> CallAt] /\ config_pc'[p] \in {"commit", "refused"}
        /\ (config_pc'[p] = "commit" => inside)
        /\ \A q \in Players \ {p} : config_pc'[q] = config_pc[q]
    BY <2>2 DEF ConfigInv, ConfigTypes, CallAt
  <2> QED BY <2>1, <2>4, <2>5 DEF ConfigInv, ConfigTypes, Config!StakeInForce
<1>5. ASSUME NEW p \in Players, Config!CommitBet(p) PROVE ConfigInv'
  BY <1>5 DEF Config!CommitBet, Config!engine, ConfigInv, ConfigTypes, Config!StakeInForce,
       CallAt
<1>6. ASSUME NEW r \in TunedRooms, Config!OpenRound(r) PROVE ConfigInv'
  BY <1>6 DEF Config!OpenRound, Config!bets, Config!EnvWindow, ConfigInv, ConfigTypes,
       Config!StakeInForce
<1>7. ASSUME NEW r \in TunedRooms, Config!BeginDrawing(r) PROVE ConfigInv'
  BY <1>7 DEF Config!BeginDrawing, Config!bets, ConfigInv, ConfigTypes, Config!StakeInForce
<1>8. ASSUME NEW r \in TunedRooms, NEW outcome \in Config!Sides,
             Config!FinishRound(r, outcome) PROVE ConfigInv'
  <2> DEFINE resolved == {p \in Players : config_pc[p] = "placed" /\ bet[p].room = r}
  <2>1. /\ round' = [round EXCEPT ![r] = "none"]
        /\ payout' = [p \in Players |-> IF p \in resolved THEN Config!Settled(bet[p], outcome)
             ELSE payout[p]]
        /\ config_pc' = [p \in Players |->
                     IF p \notin resolved THEN config_pc[p]
                       ELSE IF bet[p].side = outcome THEN "won" ELSE "over"]
        /\ UNCHANGED <<setting, config_room, window, bet, inForce>>
    BY <1>8 DEF Config!FinishRound
  <2>2. \A p \in resolved : config_pc[p] = "placed" /\ bet[p] \in PlacedBet
    BY DEF ConfigInv
  <2>3. ASSUME NEW b \in PlacedBet PROVE Config!Settled(b, outcome) \in Nat
    <3>1. b.side \in {"DRAGON", "TIGER", "TIE"} /\ b.amount \in Nat
      BY DEF PlacedBet, Config!Sides
    <3>2. Config!Odds[b.side] = IF b.side = "TIE" THEN 8 ELSE 1
      BY <3>1 DEF Config!Odds
    <3>3. b.amount + b.amount * 8 \in Nat /\ b.amount + b.amount * 1 \in Nat
      BY <3>1
    <3>4. b.amount \div 2 \in Nat
      BY <3>1
    <3> QED BY <3>2, <3>3, <3>4 DEF Config!Settled
  <2>4. payout' \in [Players -> Nat]
    BY <2>1, <2>2, <2>3 DEF ConfigInv, ConfigTypes
  <2> HIDE DEF resolved
  <2>5. config_pc' \in [Players -> CallAt]
    BY <2>1 DEF ConfigInv, ConfigTypes, CallAt
  <2>6. \A p \in Players : p \notin resolved => config_pc'[p] = config_pc[p]
    BY <2>1
  <2>7. \A p \in resolved : p \in Players
        => config_pc'[p] \in {"won", "over"} /\ config_pc[p] = "placed"
    BY <2>1, <2>2
  <2> QED BY <2>1, <2>4, <2>5, <2>6, <2>7 DEF ConfigInv, ConfigTypes, Config!StakeInForce
<1>9. CASE UNCHANGED Config!vars
  BY <1>9 DEF Config!vars, Config!engine, Config!bets, ConfigInv, ConfigTypes,
       Config!StakeInForce
<1> QED BY <1>1, <1>2, <1>3, <1>4, <1>5, <1>6, <1>7, <1>8, <1>9
     DEF Config!Next, Config!Bet, Config!Engine

\* The range of stakes of a room is never wider than the platform's, whatever was written
\* since, and a stake that was taken was in the platform's at some time of its call
\* (getStakeBounds).
THEOREM RulesSafe ==
  ASSUME Config!GameConfigAssumption
           PROVE Config!Spec => [](Config!TypeOK /\ Config!NeverWidened /\ Config!StakeInForce)
<1>1. ConfigInv => Config!TypeOK
  <2> SUFFICES ASSUME ConfigInv PROVE Config!TypeOK
    OBVIOUS
  <2>1. \A p \in Players : bet[p] # Unset
        => bet[p].side \in Config!Sides /\ bet[p].amount \in Nat
    BY DEF ConfigInv, ConfigTypes, PlacedBet
  <2> QED BY <2>1 DEF ConfigInv, ConfigTypes, Config!TypeOK, CallAt
<1>2. ConfigInv => Config!NeverWidened
  <2> SUFFICES ASSUME ConfigInv, NEW r \in Config!Created
               PROVE  Config!StakeBounds(r).min >= Config!MinBet
                        /\ Config!StakeBounds(r).max <= Config!MaxBet
    BY DEF Config!NeverWidened
  <2>1. config_room[r].min \in Nat /\ config_room[r].max \in Nat
    BY DEF ConfigInv, ConfigTypes, Config!Created, Config!Ranges
  <2> QED BY <2>1, PlatformType DEF Config!StakeBounds
<1>3. ConfigInv => Config!StakeInForce
  BY DEF ConfigInv
<1> QED BY ConfigInvInit, ConfigInvStep, <1>1, <1>2, <1>3, PTL DEF Config!Spec

(* The life of the engine (module EngineLifecycle). *)

EngineInv ==
    /\ Engine!TypeOK
    /\ timer => engine_connected
    /\ \A r \in Rooms : work[r] # "idle" => r \in loose \/ (running /\ r \in engine_awaited)
    /\ \A s \in Signals : shutdown[s] # "none" => engine_connected /\ ~timer
    /\ \A s \in Signals : shutdown[s] = "disconnecting" => ~running
    /\ exited => ~running

LEMMA EngineInit == ASSUME Engine!EngineLifecycleAssumption PROVE Engine!Init => EngineInv
<1> SUFFICES ASSUME Engine!Init PROVE EngineInv
  OBVIOUS
<1>1. Engine!TypeOK
  <2>1. work \in [Rooms -> {"idle", "locking", "transacting", "releasing"}]
    BY DEF Engine!Init
  <2>2. shutdown \in [Signals -> {"none", "waiting", "disconnecting"}]
    BY DEF Engine!Init
  <2>3. engine_faults \in 0 .. MaxFaults
    BY DEF Engine!Init, Engine!EngineLifecycleAssumption
  <2> QED BY <2>1, <2>2, <2>3 DEF Engine!Init, Engine!TypeOK
<1>2. \A r \in Rooms : work[r] = "idle"
  BY DEF Engine!Init
<1>3. \A s \in Signals : shutdown[s] = "none"
  BY DEF Engine!Init
<1> QED BY <1>1, <1>2, <1>3 DEF Engine!Init, EngineInv

LEMMA EngineStep ==
  ASSUME Engine!EngineLifecycleAssumption
  PROVE  EngineInv /\ [Engine!Next]_(Engine!vars) => EngineInv'
<1> SUFFICES ASSUME EngineInv, [Engine!Next]_(Engine!vars) PROVE EngineInv'
  OBVIOUS
<1> USE DEF EngineInv, Engine!TypeOK
<1>1. CASE Engine!Start
  BY <1>1 DEF Engine!Start
<1>2. CASE Engine!Tick
  BY <1>2 DEF Engine!Tick
<1>3. CASE Engine!TickEnds
  BY <1>3 DEF Engine!TickEnds
<1>4. ASSUME NEW r \in Rooms, Engine!Lock(r) PROVE EngineInv'
  BY <1>4 DEF Engine!Lock, Engine!Go, Engine!Leave
<1>5. ASSUME NEW r \in Rooms, Engine!Transact(r) PROVE EngineInv'
  BY <1>5 DEF Engine!Transact, Engine!Go
<1>6. ASSUME NEW r \in Rooms, Engine!Release(r) PROVE EngineInv'
  BY <1>6 DEF Engine!Release, Engine!Go, Engine!Leave
<1>7. ASSUME NEW r \in Rooms, Engine!Reject(r) PROVE EngineInv'
  <2>1. /\ work[r] # "idle" /\ work' = [work EXCEPT ![r] = "idle"]
        /\ engine_faults' \in 0 .. MaxFaults /\ engine_faults' # 0
        /\ UNCHANGED <<engine_connected, timer, shutdown, exited>>
    BY <1>7 DEF Engine!Reject, Engine!Go, Engine!EngineLifecycleAssumption
  <2>2. /\ work' \in [Rooms -> {"idle", "locking", "transacting", "releasing"}]
        /\ work'[r] = "idle" /\ \A q \in Rooms \ {r} : work'[q] = work[q]
    BY <2>1
  <2>3. CASE r \in engine_awaited
    <3>1. running' = FALSE /\ engine_awaited' = {} /\ loose' = (loose \cup engine_awaited) \ {r}
      BY <1>7, <2>3 DEF Engine!Reject
    <3> QED BY <2>1, <2>2, <3>1
  <2>4. CASE r \notin engine_awaited
    <3>1. UNCHANGED <<running, engine_awaited>> /\ loose' = loose \ {r}
      BY <1>7, <2>4 DEF Engine!Reject
    <3> QED BY <2>1, <2>2, <2>4, <3>1
  <2> QED BY <2>3, <2>4
<1>8. ASSUME NEW s \in Signals, Engine!Stop(s) PROVE EngineInv'
  BY <1>8 DEF Engine!Stop
<1>9. ASSUME NEW s \in Signals, Engine!Stopped(s) PROVE EngineInv'
  BY <1>9 DEF Engine!Stopped
<1>10. ASSUME NEW s \in Signals, Engine!Exit(s) PROVE EngineInv'
  BY <1>10 DEF Engine!Exit
<1>11. CASE UNCHANGED Engine!vars
  BY <1>11 DEF Engine!vars
<1> QED BY <1>1, <1>2, <1>3, <1>4, <1>5, <1>6, <1>7, <1>8, <1>9, <1>10, <1>11
     DEF Engine!Next, Engine!Step, Engine!Shut

\* An engine that is told to stop leaves no transaction open when it exits, and a tick begins
\* only when the one before has left every room, but for the rooms of ticks that failed, and
\* without a failure there are none (stop, tick).
THEOREM EngineSafe ==
  ASSUME Engine!EngineLifecycleAssumption
  PROVE  Engine!Spec => [](Engine!TypeOK /\ Engine!NothingAbandoned)
           /\ [][Engine!TicksDoNotOverlap]_(Engine!vars)
<1>1. EngineInv => Engine!TypeOK /\ Engine!NothingAbandoned
  BY DEF EngineInv, Engine!NothingAbandoned
<1>2. EngineInv /\ [Engine!Next]_(Engine!vars) => [Engine!TicksDoNotOverlap]_(Engine!vars)
  <2> SUFFICES ASSUME EngineInv, Engine!Next, running', ~running
      PROVE \A r \in Rooms \ loose : work[r] = "idle"
    BY DEF Engine!TicksDoNotOverlap
  <2> QED BY DEF EngineInv
<1> QED BY EngineInit, EngineStep, <1>1, <1>2, PTL DEF Engine!Spec

(* Rooms settled at once (module Contention). *)

LEMMA ContentionCount == ASSUME NEW S PROVE Contention!Cardinality(S) = Cardinality(S)
  BY Zenon DEF Contention!Cardinality, Cardinality

LEMMA Asking ==
  ASSUME NEW S, NEW q \in Seq(S), NEW p \in S, Contention!IsInjective(q),
           ~Contention!Contains(q, p)
  PROVE  /\ Append(q, p) \in Seq(S) /\ Contention!IsInjective(Append(q, p))
         /\ \A x : Contention!Contains(Append(q, p), x) <=> Contention!Contains(q, x) \/ x = p
         /\ q # <<>> => Append(q, p) # <<>> /\ Head(Append(q, p)) = Head(q)
<1>1. /\ Append(q, p) \in Seq(S) /\ Len(Append(q, p)) = Len(q) + 1
      /\ \A i \in 1 .. Len(q) : Append(q, p)[i] = q[i]
      /\ Append(q, p)[Len(q) + 1] = p
  OBVIOUS
<1>2. Len(q) \in Nat /\ DOMAIN q = 1 .. Len(q) /\ DOMAIN Append(q, p) = 1 .. Len(q) + 1
  BY <1>1
<1>3. Contention!IsInjective(Append(q, p))
  BY <1>1, <1>2 DEF Contention!IsInjective, Contention!Contains
<1>4. \A x : Contention!Contains(Append(q, p), x) <=> Contention!Contains(q, x) \/ x = p
  BY <1>1, <1>2 DEF Contention!Contains
<1> QED BY <1>1, <1>3, <1>4

LEMMA Serving ==
  ASSUME NEW S, NEW q \in Seq(S), Contention!IsInjective(q), q # <<>>
  PROVE  /\ Tail(q) \in Seq(S) /\ Contention!IsInjective(Tail(q))
         /\ \A x : Contention!Contains(Tail(q), x) <=> Contention!Contains(q, x) /\ x # Head(q)
<1>1. /\ Tail(q) \in Seq(S) /\ Len(Tail(q)) = Len(q) - 1
      /\ \A i \in 1 .. Len(q) - 1 : Tail(q)[i] = q[i + 1]
      /\ Head(q) = q[1] /\ Len(q) \in Nat \ {0}
      /\ DOMAIN q = 1 .. Len(q) /\ DOMAIN Tail(q) = 1 .. Len(q) - 1
  OBVIOUS
<1>2. Contention!IsInjective(Tail(q))
  BY <1>1 DEF Contention!IsInjective
<1>3. ASSUME NEW x PROVE Contention!Contains(Tail(q), x)
             <=> Contention!Contains(q, x) /\ x # Head(q)
  <2>1. ASSUME Contention!Contains(Tail(q), x) PROVE Contention!Contains(q, x) /\ x # Head(q)
    BY <1>1, <2>1 DEF Contention!Contains, Contention!IsInjective
  <2>2. ASSUME Contention!Contains(q, x), x # Head(q) PROVE Contention!Contains(Tail(q), x)
    <3>1. PICK i \in 1 .. Len(q) : q[i] = x
      BY <2>2 DEF Contention!Contains
    <3>2. i - 1 \in 1 .. Len(q) - 1 /\ Tail(q)[i - 1] = x
      BY <1>1, <2>2, <3>1
    <3> QED BY <1>1, <3>2 DEF Contention!Contains
  <2> QED BY <2>1, <2>2
<1> QED BY <1>1, <1>2, <1>3

LEMMA Leaving ==
  ASSUME NEW S, NEW q \in Seq(S), NEW p, Contention!IsInjective(q)
  PROVE  /\ Contention!RemoveFirst(q, p) \in Seq(S)
              /\ Contention!IsInjective(Contention!RemoveFirst(q, p))
         /\ \A x : Contention!Contains(Contention!RemoveFirst(q, p), x)
              <=> Contention!Contains(q, x) /\ x # p
         /\ q # <<>> /\ Head(q) # p => /\ Contention!RemoveFirst(q, p) # <<>>
                                       /\ Head(Contention!RemoveFirst(q, p)) = Head(q)
<1>1. CASE ~Contention!Contains(q, p)
  BY <1>1 DEF Contention!RemoveFirst, Contention!Contains
<1>2. CASE Contention!Contains(q, p)
  <2>1. PICK k \in 1 .. Len(q) : q[k] = p
    BY <1>2 DEF Contention!Contains
  <2>2. {i \in 1 .. Len(q) : q[i] = p} = {k}
    BY <2>1 DEF Contention!IsInjective
  <2>3. Contention!SelectInSeq(q, LAMBDA v : v = p) = k
    BY <2>1, <2>2 DEF Contention!SelectInSeq, Contention!Min
  <2> DEFINE t == SubSeq(q, 1, k - 1) \o SubSeq(q, k + 1, Len(q))
  <2>4. Contention!RemoveFirst(q, p) = t
    BY <1>2, <2>3 DEF Contention!RemoveFirst, Contention!RemoveAt, Contention!Contains
  <2>5. Len(q) \in Nat /\ DOMAIN q = 1 .. Len(q) /\ Head(q) = q[1] /\ k \in Nat
    BY <2>1
  <2>6. /\ SubSeq(q, 1, k - 1) \in Seq(S) /\ Len(SubSeq(q, 1, k - 1)) = k - 1
        /\ \A i \in 1 .. k - 1 : SubSeq(q, 1, k - 1)[i] = q[i]
    BY <2>5, SubSeqProperties
  <2>7. /\ SubSeq(q, k + 1, Len(q)) \in Seq(S) /\ Len(SubSeq(q, k + 1, Len(q))) = Len(q) - k
        /\ \A i \in 1 .. Len(q) - k : SubSeq(q, k + 1, Len(q))[i] = q[k + i]
    <3>1. \A i \in k + 1 .. Len(q) : q[i] \in S
      BY <2>5
    <3>2. /\ SubSeq(q, k + 1, Len(q)) \in Seq(S)
          /\ Len(SubSeq(q, k + 1, Len(q))) = IF k + 1 <= Len(q) THEN Len(q) - (k + 1) + 1 ELSE 0
          /\ \A i \in 1 .. Len(q) - (k + 1) + 1 : SubSeq(q, k + 1, Len(q))[i] = q[k + 1 + i - 1]
      <4> HIDE DEF t
      <4>1. k + 1 \in Int /\ Len(q) \in Int
        BY <2>5
      <4>2. ASSUME NEW m \in Int, NEW n \in Int, \A i \in m .. n : q[i] \in S
            PROVE  /\ SubSeq(q, m, n) \in Seq(S)
                   /\ Len(SubSeq(q, m, n)) = IF m <= n THEN n - m + 1 ELSE 0
                   /\ \A i \in 1 .. n - m + 1 : SubSeq(q, m, n)[i] = q[m + i - 1]
        BY <4>2, SubSeqProperties, SMTT(30)
      <4> QED BY ONLY <3>1, <4>1, <4>2
    <3>3. k <= Len(q) /\ k \in Nat /\ Len(q) \in Nat
      BY <2>1, <2>5
    <3> QED BY <3>2, <3>3
  <2>8. /\ t \in Seq(S) /\ Len(t) = Len(q) - 1 /\ DOMAIN t = 1 .. Len(q) - 1
        /\ \A i \in 1 .. Len(q) - 1 : t[i] = IF i < k THEN q[i] ELSE q[i + 1]
    <3>1. /\ t \in Seq(S) /\ Len(t) = Len(SubSeq(q, 1, k - 1)) + Len(SubSeq(q, k + 1, Len(q)))
          /\ \A i \in 1 .. Len(SubSeq(q, 1, k - 1)) + Len(SubSeq(q, k + 1, Len(q))) :
                t[i] = IF i <= Len(SubSeq(q, 1, k - 1)) THEN SubSeq(q, 1, k - 1)[i]
                       ELSE SubSeq(q, k + 1, Len(q))[i - Len(SubSeq(q, 1, k - 1))]
      BY <2>6, <2>7, ConcatProperties, Zenon
    <3>2. /\ t \in Seq(S) /\ Len(t) = Len(q) - 1
          /\ \A i \in 1 .. Len(q) - 1 : t[i] = IF i <= k - 1 THEN q[i] ELSE q[i + 1]
      <4>1. k \in 1 .. Len(q) /\ Len(q) \in Nat
        BY <2>1, <2>5
      <4> DEFINE a == SubSeq(q, 1, k - 1)
                 b == SubSeq(q, k + 1, Len(q))
      <4>2. /\ Len(a) = k - 1 /\ \A i \in 1 .. k - 1 : a[i] = q[i]
            /\ Len(b) = Len(q) - k /\ \A i \in 1 .. Len(q) - k : b[i] = q[k + i]
        BY <2>6, <2>7
      <4>3. /\ t \in Seq(S) /\ Len(t) = Len(a) + Len(b)
            /\ \A i \in 1 .. Len(a) + Len(b) :
                  t[i] = IF i <= Len(a) THEN a[i] ELSE b[i - Len(a)]
        BY <3>1
      <4> HIDE DEF t, a, b
      <4>4. t \in Seq(S) /\ Len(t) = Len(q) - 1
        BY <4>1, <4>2, <4>3
      <4>5. ASSUME NEW i \in 1 .. Len(q) - 1
            PROVE  t[i] = IF i <= k - 1 THEN q[i] ELSE q[i + 1]
        <5>1. CASE i <= k - 1
          BY <4>1, <4>2, <4>3, <5>1
        <5>2. CASE ~(i <= k - 1)
          <6>1. i - Len(a) \in 1 .. Len(q) - k /\ k + (i - Len(a)) = i + 1
            BY <4>1, <4>2, <5>2
          <6> QED BY <4>1, <4>2, <4>3, <5>2, <6>1
        <5> QED BY <5>1, <5>2
      <4> QED BY <4>4, <4>5
    <3> HIDE DEF t
    <3> QED BY <2>1, <2>5, <3>2
  <2> HIDE DEF t
  <2>9. Contention!IsInjective(t)
    <3> SUFFICES ASSUME NEW a \in DOMAIN t, NEW b \in DOMAIN t, t[a] = t[b] PROVE a = b
      BY DEF Contention!IsInjective
    <3>1. \A i, j \in 1 .. Len(q) : q[i] = q[j] => i = j
      BY <2>5 DEF Contention!IsInjective
    <3>2. a \in 1 .. Len(q) - 1 /\ b \in 1 .. Len(q) - 1
      BY <2>8
    <3> QED BY <2>1, <2>5, <2>8, <3>1, <3>2
  <2>10. ASSUME NEW x PROVE Contention!Contains(t, x) <=> Contention!Contains(q, x) /\ x # p
    <3>1. ASSUME Contention!Contains(t, x) PROVE Contention!Contains(q, x) /\ x # p
      <4>1. PICK i \in 1 .. Len(q) - 1 : t[i] = x
        BY <2>5, <2>8, <3>1 DEF Contention!Contains
      <4>2. CASE i < k
        BY <2>1, <2>5, <2>8, <4>1, <4>2 DEF Contention!Contains, Contention!IsInjective
      <4>3. CASE ~(i < k)
        BY <2>1, <2>5, <2>8, <4>1, <4>3 DEF Contention!Contains, Contention!IsInjective
      <4> QED BY <4>2, <4>3
    <3>2. ASSUME Contention!Contains(q, x), x # p PROVE Contention!Contains(t, x)
      <4>1. PICK i \in 1 .. Len(q) : q[i] = x
        BY <3>2 DEF Contention!Contains
      <4>2. i # k
        BY <2>1, <3>2, <4>1
      <4>3. CASE i < k
        BY <2>1, <2>5, <2>8, <4>1, <4>3 DEF Contention!Contains
      <4>4. CASE i > k
        <5>1. i - 1 \in 1 .. Len(q) - 1 /\ t[i - 1] = x
          BY <2>1, <2>5, <2>8, <4>1, <4>4
        <5> QED BY <2>5, <2>8, <5>1 DEF Contention!Contains
      <4> QED BY <2>1, <2>5, <4>1, <4>2, <4>3, <4>4
    <3> QED BY <3>1, <3>2
  <2>11. ASSUME q # <<>>, Head(q) # p PROVE t # <<>> /\ Head(t) = Head(q)
    <3>1. k > 1
      BY <2>1, <2>5, <2>11
    <3> QED BY <2>1, <2>5, <2>8, <3>1
  <2> QED BY <2>4, <2>8, <2>9, <2>10, <2>11
<1> QED BY <1>1, <1>2

Drafts == UNION {[D -> Int] : D \in SUBSET Users}

ContentionTypes ==
    /\ settled \subseteq Rooms /\ IsFiniteSet(settled)
    /\ contention_awaited \subseteq Rooms \ settled
         /\ contention_open \cup due \subseteq contention_awaited
    /\ contention_open \cap due = {}
    /\ todo \in [Rooms -> SUBSET Users] /\ stale \in [Rooms -> SUBSET Users]
    /\ draft \in [Rooms -> Drafts]
    /\ queue \in [Users -> Seq(Rooms \cup {Api})]
    /\ balance \in [Users -> Int] /\ stakes \in [Users -> Nat]
    /\ contention_faults \in 0 .. MaxFaults

\* A settlement writes each winner's wallet while it is first in the queue for it.
Work ==
    /\ \A r \in Rooms : r \notin contention_open => todo[r] = {} /\ DOMAIN draft[r] = {}
    /\ \A r \in contention_open : /\ todo[r] \cup DOMAIN draft[r] = Winners[r]
                       /\ todo[r] \cap DOMAIN draft[r] = {}
    /\ \A r \in contention_open : \A u \in DOMAIN draft[r] :
          Contention!Holds(r, u) /\ draft[r][u] = balance[u] + 1

Queues ==
    /\ \A u \in Users : Contention!IsInjective(queue[u])
    /\ \A u \in Users, r \in Rooms : Contention!Contains(queue[u], r) => r \in contention_open
    /\ \A u \in Users : stakes[u] <= MaxStakes[u]
    /\ \A u \in Users : Contention!Contains(queue[u], Api) => stakes[u] < MaxStakes[u]

ContentionInv == ContentionTypes /\ Work /\ Queues /\ Contention!PaidOncePerRoom

LEMMA HeadIsIn ==
  ASSUME NEW p, NEW u, NEW S, queue[u] \in Seq(S), Contention!Holds(p, u)
  PROVE  Contention!Contains(queue[u], p)
BY DEF Contention!Holds, Contention!Contains

LEMMA ContentionInvInit ==
  ASSUME Contention!ContentionAssumption PROVE Contention!Init => ContentionInv
<1> SUFFICES ASSUME Contention!Init PROVE ContentionInv
  OBVIOUS
<1>1. ContentionTypes
  <2>1. draft \in [Rooms -> Drafts]
    <3>1. Contention!Nothing \in [{} -> Int] /\ {} \in SUBSET Users
      BY DEF Contention!Nothing
    <3>2. Contention!Nothing \in Drafts
      BY <3>1 DEF Drafts
    <3> QED BY <3>2 DEF Contention!Init
  <2> QED BY <2>1, FS_EmptySet
       DEF Contention!Init, ContentionTypes, Contention!ContentionAssumption
<1>2. Work
  BY DEF Contention!Init, Work, Contention!Nothing
<1>3. \A u \in Users : queue[u] = <<>>
  BY DEF Contention!Init
<1>4. Queues
  BY <1>3 DEF Contention!Init, Queues, Contention!IsInjective, Contention!Contains,
       Contention!ContentionAssumption
<1>5. Contention!PaidOncePerRoom
  <2>1. \A u \in Users : {r \in settled : u \in Winners[r]} = {}
    BY DEF Contention!Init
  <2> QED BY <2>1, FS_EmptySet, ContentionCount DEF Contention!Init, Contention!PaidOncePerRoom
<1> QED BY <1>1, <1>2, <1>4, <1>5 DEF ContentionInv

\* What an end leaves of the queues: the others stay in line.
LEMMA EndLeaves ==
  ASSUME Contention!ContentionAssumption, ContentionInv, NEW r \in Rooms, queue' =
           Contention!Leave(r)
  PROVE  /\ queue' \in [Users -> Seq(Rooms \cup {Api})]
         /\ \A u \in Users :
               /\ Contention!IsInjective(queue'[u])
               /\ \A x : Contention!Contains(queue'[u], x)
                    <=> Contention!Contains(queue[u], x) /\ x # r
               /\ \A x : Contention!Holds(x, u) /\ x # r => Contention!Holds(x, u)'
<1> SUFFICES ASSUME NEW u \in Users
             PROVE  /\ queue'[u] \in Seq(Rooms \cup {Api}) /\ Contention!IsInjective(queue'[u])
                    /\ \A x : Contention!Contains(queue'[u], x)
                         <=> Contention!Contains(queue[u], x) /\ x # r
                    /\ \A x : Contention!Holds(x, u) /\ x # r => Contention!Holds(x, u)'
  BY DEF Contention!Leave
<1>1. queue'[u] = Contention!RemoveFirst(queue[u], r)
  BY DEF Contention!Leave
<1>2. queue[u] \in Seq(Rooms \cup {Api}) /\ Contention!IsInjective(queue[u])
  BY DEF ContentionInv, ContentionTypes, Queues
<1>3. /\ Contention!RemoveFirst(queue[u], r) \in Seq(Rooms \cup {Api})
      /\ Contention!IsInjective(Contention!RemoveFirst(queue[u], r))
      /\ \A x : Contention!Contains(Contention!RemoveFirst(queue[u], r), x)
           <=> Contention!Contains(queue[u], x) /\ x # r
      /\ queue[u] # <<>> /\ Head(queue[u]) # r
           => /\ Contention!RemoveFirst(queue[u], r) # <<>>
              /\ Head(Contention!RemoveFirst(queue[u], r)) = Head(queue[u])
  BY <1>2, Leaving
<1> QED BY <1>1, <1>3 DEF Contention!Holds

\* The end of a settlement that did not commit.
LEMMA FailKeeps ==
  ASSUME Contention!ContentionAssumption, ContentionInv, NEW r \in contention_open,
           Contention!Fail(r), contention_faults' \in 0 .. MaxFaults
  PROVE  ContentionInv'
<1>1. r \in Rooms /\ queue' = Contention!Leave(r)
  BY DEF ContentionInv, ContentionTypes, Contention!Fail, Contention!End
<1>2. /\ queue' \in [Users -> Seq(Rooms \cup {Api})]
      /\ \A u \in Users :
            /\ Contention!IsInjective(queue'[u])
            /\ \A x : Contention!Contains(queue'[u], x)
                 <=> Contention!Contains(queue[u], x) /\ x # r
            /\ \A x : Contention!Holds(x, u) /\ x # r => Contention!Holds(x, u)'
  BY <1>1, EndLeaves
<1>3. ContentionTypes'
  <2>1. Contention!Nothing \in Drafts
    <3>1. Contention!Nothing \in [{} -> Int] /\ {} \in SUBSET Users
      BY DEF Contention!Nothing
    <3> QED BY <3>1 DEF Drafts
  <2>2. draft' \in [Rooms -> Drafts]
    BY <2>1 DEF Contention!Fail, Contention!End, ContentionInv, ContentionTypes
  <2> QED BY <1>2, <2>2 DEF ContentionInv, ContentionTypes, Contention!Fail, Contention!End
<1>4. Work'
  <2>1. contention_open' = contention_open \ {r} /\ balance' = balance
        /\ todo'[r] = {} /\ DOMAIN draft'[r] = {}
        /\ \A s \in Rooms \ {r} : todo'[s] = todo[s] /\ draft'[s] = draft[s]
    BY <1>1 DEF Contention!Fail, Contention!End, ContentionInv, ContentionTypes,
         Contention!Nothing
  <2>2. \A s \in contention_open : \A u \in DOMAIN draft[s] : u \in Users
    BY DEF ContentionInv, Work, ContentionTypes, Contention!ContentionAssumption
  <2>3. contention_open \subseteq Rooms
    BY DEF ContentionInv, ContentionTypes
  <2> QED BY <1>1, <1>2, <2>1, <2>2, <2>3 DEF ContentionInv, Work
<1>5. Queues'
  BY <1>2 DEF ContentionInv, Queues, Contention!Fail, Contention!End
<1>6. Contention!PaidOncePerRoom'
  BY ContentionCount DEF ContentionInv, Contention!PaidOncePerRoom, Contention!Fail
<1> QED BY <1>3, <1>4, <1>5, <1>6 DEF ContentionInv

\* What a new place in line changes of the queues.
LEMMA Joins ==
  ASSUME Contention!ContentionAssumption, ContentionInv, NEW p \in Rooms
           \cup {Api}, NEW u \in Users,
         ~Contention!Contains(queue[u], p), queue' = [queue EXCEPT ![u] = Append(@, p)]
  PROVE  /\ queue' \in [Users -> Seq(Rooms \cup {Api})]
         /\ \A v \in Users :
               /\ Contention!IsInjective(queue'[v])
               /\ \A x : Contention!Contains(queue'[v], x)
                    <=> Contention!Contains(queue[v], x) \/ (x = p /\ v = u)
               /\ \A x : Contention!Holds(x, v) => Contention!Holds(x, v)'
<1>1. queue \in [Users -> Seq(Rooms \cup {Api})]
      /\ \A v \in Users : Contention!IsInjective(queue[v])
  BY DEF ContentionInv, ContentionTypes, Queues
<1>2. queue' = [queue EXCEPT ![u] = Append(queue[u], p)]
  OBVIOUS
<1>3. /\ Append(queue[u], p) \in Seq(Rooms \cup {Api})
           /\ Contention!IsInjective(Append(queue[u], p))
      /\ \A x : Contention!Contains(Append(queue[u], p), x)
           <=> Contention!Contains(queue[u], x) \/ x = p
      /\ queue[u] # <<>> => /\ Append(queue[u], p) # <<>>
                            /\ Head(Append(queue[u], p)) = Head(queue[u])
  <2>1. queue[u] \in Seq(Rooms \cup {Api}) /\ Contention!IsInjective(queue[u])
    BY <1>1
  <2> QED BY <2>1, Asking
<1>4. queue' \in [Users -> Seq(Rooms \cup {Api})]
  BY <1>1, <1>2, <1>3
<1>5. \A v \in Users : queue'[v] = IF v = u THEN Append(queue[u], p) ELSE queue[v]
  BY <1>1, <1>2
<1>6. ASSUME NEW v \in Users
      PROVE  /\ Contention!IsInjective(queue'[v])
             /\ \A x : Contention!Contains(queue'[v], x)
                  <=> Contention!Contains(queue[v], x) \/ (x = p /\ v = u)
             /\ \A x : Contention!Holds(x, v) => Contention!Holds(x, v)'
  <2>1. CASE v = u
    BY <1>3, <1>5, <2>1 DEF Contention!Holds
  <2>2. CASE v # u
    BY <1>1, <1>5, <2>2 DEF Contention!Holds
  <2> QED BY <2>1, <2>2
<1> QED BY <1>4, <1>6

\* One more room that is settled adds one payout.
Paying(D, u) == {r \in D : u \in Winners[r]}

LEMMA OneMore ==
  ASSUME NEW D, IsFiniteSet(D), NEW r, r \notin D, NEW u
  PROVE  Cardinality(Paying(D \cup {r}, u))
           = Cardinality(Paying(D, u)) + (IF u \in Winners[r] THEN 1 ELSE 0)
<1>1. IsFiniteSet(Paying(D, u)) /\ Cardinality(Paying(D, u)) \in Nat /\ r \notin Paying(D, u)
  BY FS_Subset, FS_CardinalityType DEF Paying
<1>2. Paying(D \cup {r}, u) = IF u \in Winners[r] THEN Paying(D, u) \cup {r} ELSE Paying(D, u)
  BY DEF Paying
<1>3. Cardinality(Paying(D, u) \cup {r}) = Cardinality(Paying(D, u)) + 1
  BY <1>1, FS_AddElement
<1> QED BY <1>1, <1>2, <1>3

LEMMA CommitKeeps ==
  ASSUME Contention!ContentionAssumption, ContentionInv, NEW r \in Rooms, Contention!Commit(r)
  PROVE  ContentionInv'
<1>1. /\ r \in contention_open /\ todo[r] = {} /\ DOMAIN draft[r] = Winners[r]
           /\ Winners[r] \subseteq Users
      /\ queue' = Contention!Leave(r) /\ r \in contention_awaited /\ r \notin settled
           /\ r \notin due
      /\ contention_open' = contention_open \ {r}
           /\ contention_awaited' = contention_awaited \ {r} /\ settled' = settled \cup {r}
      /\ due' = due /\ stakes' = stakes /\ contention_faults' = contention_faults
  <2>1. r \in contention_open /\ todo[r] = {}
    BY DEF Contention!Commit
  <2> QED BY <2>1 DEF Contention!Commit, Contention!End, ContentionInv, ContentionTypes, Work,
       Contention!ContentionAssumption
<1>2. /\ queue' \in [Users -> Seq(Rooms \cup {Api})]
      /\ \A u \in Users :
            /\ Contention!IsInjective(queue'[u])
            /\ \A x : Contention!Contains(queue'[u], x)
                 <=> Contention!Contains(queue[u], x) /\ x # r
            /\ \A x : Contention!Holds(x, u) /\ x # r => Contention!Holds(x, u)'
  BY <1>1, EndLeaves
<1>3. \A u \in Users : balance'[u] = balance[u] + (IF u \in Winners[r] THEN 1 ELSE 0)
  <2>1. \A u \in Users : balance'[u] = IF u \in DOMAIN draft[r] THEN draft[r][u] ELSE balance[u]
    BY DEF Contention!Commit
  <2>2. \A u \in DOMAIN draft[r] : draft[r][u] = balance[u] + 1
    BY <1>1 DEF ContentionInv, Work
  <2>3. \A u \in Users : balance[u] \in Int
    BY DEF ContentionInv, ContentionTypes
  <2> QED BY <1>1, <2>1, <2>2, <2>3
<1>4. /\ todo'[r] = {} /\ DOMAIN draft'[r] = {}
      /\ \A s \in Rooms \ {r} : todo'[s] = todo[s] /\ draft'[s] = draft[s]
      /\ todo' \in [Rooms -> SUBSET Users] /\ draft' \in [Rooms -> Drafts]
  <2>1. Contention!Nothing \in [{} -> Int] /\ {} \in SUBSET Users
        /\ DOMAIN Contention!Nothing = {}
    BY DEF Contention!Nothing
  <2>2. Contention!Nothing \in Drafts
    BY <2>1 DEF Drafts
  <2> QED BY <2>1, <2>2 DEF Contention!Commit, Contention!End, ContentionInv, ContentionTypes
<1>5. ContentionTypes'
  <2>1. stale' \in [Rooms -> SUBSET Users]
    BY <1>1 DEF Contention!Commit, Contention!Touch, ContentionInv, ContentionTypes
  <2>2. balance' \in [Users -> Int]
    <3>1. balance' = [u \in Users |-> balance'[u]]
      BY DEF Contention!Commit
    <3>2. \A u \in Users : balance'[u] \in Int
      <4>1. \A u \in Users : balance[u] \in Int
        BY DEF ContentionInv, ContentionTypes
      <4> QED BY <1>3, <4>1
    <3> QED BY <3>1, <3>2
  <2>3. IsFiniteSet(settled')
    BY <1>1, FS_AddElement DEF ContentionInv, ContentionTypes
  <2> QED BY <1>1, <1>2, <1>4, <2>1, <2>2, <2>3 DEF ContentionInv, ContentionTypes
<1>6. Work'
  <2>1. ASSUME NEW s \in contention_open', NEW u \in DOMAIN draft'[s]
        PROVE  Contention!Holds(s, u)' /\ draft'[s][u] = balance'[u] + 1
    <3>1. s \in contention_open /\ s # r /\ s \in Rooms /\ draft'[s] = draft[s]
      BY <1>1, <1>4 DEF ContentionInv, ContentionTypes
    <3>2. Contention!Holds(s, u) /\ draft[s][u] = balance[u] + 1 /\ u \in Users
      BY <3>1 DEF ContentionInv, Work, ContentionTypes, Contention!ContentionAssumption
    <3>3. u \notin Winners[r]
      BY <1>1, <3>1, <3>2 DEF ContentionInv, Work, Contention!Holds
    <3>4. balance'[u] = balance[u]
      BY <1>3, <3>2, <3>3 DEF ContentionInv, ContentionTypes
    <3> QED BY <1>2, <3>1, <3>2, <3>4
  <2> QED BY <1>1, <1>4, <2>1 DEF ContentionInv, Work, ContentionTypes
<1>7. Queues'
  BY <1>1, <1>2 DEF ContentionInv, Queues
<1>8. Contention!PaidOncePerRoom'
  <2> SUFFICES ASSUME NEW u \in Users
               PROVE  balance'[u] = Cardinality(Paying(settled', u)) - stakes'[u]
    BY ContentionCount DEF Contention!PaidOncePerRoom, Paying
  <2>1. Cardinality(Paying(settled', u))
          = Cardinality(Paying(settled, u)) + (IF u \in Winners[r] THEN 1 ELSE 0)
    <3>1. settled' = settled \cup {r} /\ r \notin settled /\ IsFiniteSet(settled)
      BY <1>1 DEF ContentionInv, ContentionTypes
    <3>2. Cardinality(Paying(settled \cup {r}, u))
            = Cardinality(Paying(settled, u)) + (IF u \in Winners[r] THEN 1 ELSE 0)
      BY <3>1, OneMore
    <3> QED BY <3>1, <3>2
  <2>2. balance[u] = Cardinality(Paying(settled, u)) - stakes[u]
    BY ContentionCount DEF ContentionInv, Contention!PaidOncePerRoom, Paying
  <2>3. Cardinality(Paying(settled, u)) \in Nat /\ stakes[u] \in Nat
    BY FS_Subset, FS_CardinalityType DEF ContentionInv, ContentionTypes, Paying
  <2> QED BY <1>1, <1>3, <2>1, <2>2, <2>3
<1> QED BY <1>5, <1>6, <1>7, <1>8 DEF ContentionInv

LEMMA CreditKeeps ==
  ASSUME Contention!ContentionAssumption, ContentionInv, NEW r \in Rooms, NEW u \in Users,
           Contention!Credit(r, u)
  PROVE  ContentionInv'
<1>1. u \in todo[r] /\ Contention!Holds(r, u) /\ r \in contention_open
      /\ u \notin DOMAIN draft[r]
      /\ DOMAIN draft[r] \subseteq Users
  <2>1. u \in todo[r] /\ Contention!Holds(r, u)
    BY DEF Contention!Credit, Contention!MayRead
  <2>2. r \in contention_open
    BY <2>1 DEF ContentionInv, Work
  <2>3. DOMAIN draft[r] \subseteq Winners[r]
    BY <2>2 DEF ContentionInv, Work
  <2> QED BY <2>1, <2>2, <2>3 DEF ContentionInv, Work, Contention!ContentionAssumption
<1> DEFINE d == [v \in DOMAIN draft[r] \cup {u} |-> IF v = u THEN balance[u] + 1
    ELSE draft[r][v]]
<1>2. /\ draft' = [draft EXCEPT ![r] = d]
      /\ todo' = [todo EXCEPT ![r] = @ \ {u}]
      /\ UNCHANGED <<settled, contention_awaited, due, contention_open, stale, queue, balance,
           stakes, contention_faults>>
  BY DEF Contention!Credit
<1>3. d \in Drafts
  <2>1. \A v \in DOMAIN draft[r] : draft[r][v] = balance[v] + 1
    BY <1>1 DEF ContentionInv, Work
  <2>2. d \in [DOMAIN draft[r] \cup {u} -> Int]
    BY <1>1, <2>1 DEF ContentionInv, ContentionTypes
  <2> QED BY <1>1, <2>2 DEF Drafts
<1>4. /\ draft'[r] = d /\ \A s \in Rooms \ {r} : draft'[s] = draft[s]
      /\ todo'[r] = todo[r] \ {u} /\ \A s \in Rooms \ {r} : todo'[s] = todo[s]
  BY <1>2 DEF ContentionInv, ContentionTypes
<1>5. DOMAIN d = DOMAIN draft[r] \cup {u} /\ d[u] = balance[u] + 1
      /\ \A v \in DOMAIN draft[r] : d[v] = draft[r][v]
  BY <1>1
<1>6. \A v \in Users : \A s : Contention!Holds(s, v)' <=> Contention!Holds(s, v)
  BY <1>2 DEF Contention!Holds
<1> HIDE DEF d
<1>7. ContentionTypes'
  BY <1>2, <1>3 DEF ContentionInv, ContentionTypes
<1>8. Work'
  <2>1. contention_open' = contention_open /\ balance' = balance
        /\ contention_open \subseteq Rooms
    BY <1>2 DEF ContentionInv, ContentionTypes
  <2>2. \A s \in contention_open : \A v \in DOMAIN draft[s] : v \in Users
    BY DEF ContentionInv, Work, ContentionTypes, Contention!ContentionAssumption
  <2>3. \A s \in contention_open : /\ todo'[s] \cup DOMAIN draft'[s] = Winners[s]
                        /\ todo'[s] \cap DOMAIN draft'[s] = {}
    <3> TAKE s \in contention_open
    <3>1. CASE s = r
      BY <1>1, <1>4, <1>5, <3>1 DEF ContentionInv, Work
    <3>2. CASE s # r
      BY <1>4, <2>1, <3>2 DEF ContentionInv, Work
    <3> QED BY <3>1, <3>2
  <2>4. ASSUME NEW s \in contention_open, NEW v \in DOMAIN draft'[s]
        PROVE  Contention!Holds(s, v)' /\ draft'[s][v] = balance[v] + 1
    <3>1. CASE s = r
      BY <1>1, <1>4, <1>5, <1>6, <2>2, <3>1 DEF ContentionInv, Work
    <3>2. CASE s # r
      BY <1>4, <1>6, <2>1, <2>2, <3>2 DEF ContentionInv, Work
    <3> QED BY <3>1, <3>2
  <2> QED BY <1>1, <1>4, <2>1, <2>3, <2>4 DEF ContentionInv, Work
<1>9. Queues' /\ Contention!PaidOncePerRoom'
  BY <1>2 DEF ContentionInv, Queues, Contention!PaidOncePerRoom
<1> QED BY <1>7, <1>8, <1>9 DEF ContentionInv

LEMMA StakeKeeps ==
  ASSUME Contention!ContentionAssumption, ContentionInv, NEW u \in Users,
           Contention!CommitStake(u)
  PROVE  ContentionInv'
<1>1. queue[u] \in Seq(Rooms \cup {Api}) /\ Contention!IsInjective(queue[u]) /\ queue[u] # <<>>
      /\ Head(queue[u]) = Api /\ Contention!Contains(queue[u], Api) /\ Contention!Holds(Api, u)
  BY HeadIsIn DEF Contention!CommitStake, Contention!Holds, ContentionInv, ContentionTypes,
       Queues
<1>2. /\ Tail(queue[u]) \in Seq(Rooms \cup {Api}) /\ Contention!IsInjective(Tail(queue[u]))
      /\ \A x : Contention!Contains(Tail(queue[u]), x)
           <=> Contention!Contains(queue[u], x) /\ x # Api
  BY <1>1, Serving
<1>3. /\ queue' = [queue EXCEPT ![u] = Tail(queue[u])]
      /\ balance' = [balance EXCEPT ![u] = @ - 1]
      /\ stakes'  = [stakes EXCEPT ![u] = @ + 1]
      /\ stale'   = Contention!Touch({u})
      /\ UNCHANGED <<settled, contention_awaited, due, contention_open, todo, draft,
           contention_faults>>
  BY DEF Contention!CommitStake
<1>4. \A v \in Users : queue'[v] = IF v = u THEN Tail(queue[u]) ELSE queue[v]
  BY <1>3 DEF ContentionInv, ContentionTypes
<1>5. ContentionTypes'
  <2>1. stale' \in [Rooms -> SUBSET Users]
    BY <1>3 DEF Contention!Touch, ContentionInv, ContentionTypes
  <2>2. queue' \in [Users -> Seq(Rooms \cup {Api})]
    BY <1>2, <1>3 DEF ContentionInv, ContentionTypes
  <2>3. balance' \in [Users -> Int] /\ stakes' \in [Users -> Nat]
    BY <1>3 DEF ContentionInv, ContentionTypes
  <2>4. UNCHANGED <<settled, contention_awaited, due, contention_open, todo, draft,
        contention_faults>>
    BY <1>3
  <2> QED BY <2>1, <2>2, <2>3, <2>4 DEF ContentionInv, ContentionTypes
<1>6. \A r \in contention_open : r # Api /\ \A v \in DOMAIN draft[r] : v \in Users /\ v # u
  BY <1>1 DEF ContentionInv, Work, ContentionTypes, Contention!Holds,
       Contention!ContentionAssumption
<1>7. Work'
  <2>1. \A v \in Users \ {u} : balance'[v] = balance[v]
    BY <1>3 DEF ContentionInv, ContentionTypes
  <2>2. \A v \in Users \ {u} : \A s : Contention!Holds(s, v)' <=> Contention!Holds(s, v)
    BY <1>4 DEF Contention!Holds
  <2> QED BY <1>3, <1>6, <2>1, <2>2 DEF ContentionInv, Work
<1>8. Queues'
  <2>1. \A v \in Users : Contention!IsInjective(queue'[v])
    BY <1>2, <1>4 DEF ContentionInv, Queues
  <2>2. \A v \in Users, r \in Rooms : Contention!Contains(queue'[v], r) => r \in contention_open
    BY <1>2, <1>4 DEF ContentionInv, Queues
  <2>3. \A v \in Users : stakes'[v] = IF v = u THEN stakes[u] + 1 ELSE stakes[v]
    BY <1>3 DEF ContentionInv, ContentionTypes
  <2>4. stakes[u] < MaxStakes[u] /\ stakes[u] \in Nat /\ MaxStakes[u] \in Nat
    BY <1>1 DEF ContentionInv, Queues, ContentionTypes, Contention!ContentionAssumption
  <2>5. \A v \in Users : Contention!Contains(queue'[v], Api) => stakes'[v] < MaxStakes[v]
    BY <1>2, <1>4, <2>3 DEF ContentionInv, Queues
  <2>6. \A v \in Users : stakes'[v] <= MaxStakes[v]
    BY <2>3, <2>4 DEF ContentionInv, Queues
  <2> QED BY <1>3, <2>1, <2>2, <2>5, <2>6 DEF Queues
<1>9. Contention!PaidOncePerRoom'
  <2>1. \A v \in Users : Cardinality(Paying(settled, v)) \in Nat
    BY FS_Subset, FS_CardinalityType DEF ContentionInv, ContentionTypes, Paying
  <2>2. \A v \in Users : /\ balance'[v] = IF v = u THEN balance[u] - 1 ELSE balance[v]
                         /\ stakes'[v] = IF v = u THEN stakes[u] + 1 ELSE stakes[v]
                         /\ stakes[v] \in Nat
    BY <1>3 DEF ContentionInv, ContentionTypes
  <2>3. \A v \in Users : balance[v] = Cardinality(Paying(settled, v)) - stakes[v]
    BY ContentionCount DEF ContentionInv, Contention!PaidOncePerRoom, Paying
  <2>4. settled' = settled
    BY <1>3
  <2> QED BY <2>1, <2>2, <2>3, <2>4, ContentionCount DEF Contention!PaidOncePerRoom, Paying
<1> QED BY <1>5, <1>7, <1>8, <1>9 DEF ContentionInv

LEMMA ContentionInvStep ==
  ASSUME Contention!ContentionAssumption
           PROVE ContentionInv /\ [Contention!Next]_(Contention!vars) => ContentionInv'
<1> SUFFICES ASSUME ContentionInv, [Contention!Next]_(Contention!vars) PROVE ContentionInv'
  OBVIOUS
<1>1. CASE Contention!Tick
  <2>1. ContentionTypes'
        /\ UNCHANGED <<settled, contention_open, todo, draft, queue, balance, stakes>>
    BY <1>1 DEF Contention!Tick, Contention!Due, Contention!work, ContentionInv, ContentionTypes
  <2> QED BY <2>1 DEF ContentionInv, Work, Queues, Contention!PaidOncePerRoom, Contention!Holds
<1>2. ASSUME NEW r \in Rooms, Contention!Begin(r) PROVE ContentionInv'
  <2>1. /\ todo' \in [Rooms -> SUBSET Users] /\ stale' \in [Rooms -> SUBSET Users]
        /\ todo'[r] = Winners[r] /\ \A s \in Rooms \ {r} : todo'[s] = todo[s]
        /\ r \in due /\ r \notin contention_open /\ r \in contention_awaited
        /\ contention_open' = contention_open \cup {r} /\ due' = due \ {r}
        /\ UNCHANGED <<settled, contention_awaited, draft, queue, balance, stakes,
             contention_faults>>
    BY <1>2 DEF Contention!Begin, ContentionInv, ContentionTypes,
         Contention!ContentionAssumption
  <2>2. ContentionTypes'
    BY <2>1 DEF ContentionInv, ContentionTypes
  <2>3. Work'
    <3>1. DOMAIN draft[r] = {} /\ contention_open \subseteq Rooms
      BY <2>1 DEF ContentionInv, Work, ContentionTypes
    <3> QED BY <2>1, <3>1 DEF ContentionInv, Work, Contention!Holds
  <2> QED BY <2>1, <2>2, <2>3 DEF ContentionInv, Queues, Contention!PaidOncePerRoom
<1>3. ASSUME NEW r \in Rooms, NEW u \in Users, Contention!Ask(r, u) PROVE ContentionInv'
  <2>1. /\ r \in contention_open /\ ~Contention!Contains(queue[u], r)
             /\ queue' = [queue EXCEPT ![u] = Append(@, r)]
        /\ UNCHANGED <<settled, contention_awaited, due, Contention!work, balance, stakes,
             contention_faults>>
    BY <1>3 DEF Contention!Ask, Contention!Asked
  <2>2. /\ queue' \in [Users -> Seq(Rooms \cup {Api})]
        /\ \A v \in Users :
               /\ Contention!IsInjective(queue'[v])
               /\ \A x : Contention!Contains(queue'[v], x)
                    <=> Contention!Contains(queue[v], x) \/ (x = r /\ v = u)
               /\ \A x : Contention!Holds(x, v) => Contention!Holds(x, v)'
    BY <2>1, Joins
  <2>3. ContentionTypes'
    BY <2>1, <2>2 DEF ContentionInv, ContentionTypes, Contention!work
  <2>4. \A s \in contention_open : \A v \in DOMAIN draft[s] : v \in Users
    BY DEF ContentionInv, Work, ContentionTypes, Contention!ContentionAssumption
  <2>5. Work'
    BY <2>1, <2>2, <2>4 DEF ContentionInv, Work, Contention!work
  <2>6. r # Api
    BY DEF Contention!ContentionAssumption
  <2>7. Queues'
    BY <2>1, <2>2, <2>6 DEF ContentionInv, Queues, Contention!work
  <2> QED BY <2>1, <2>3, <2>5, <2>7 DEF ContentionInv, Contention!PaidOncePerRoom
<1>4. ASSUME NEW r \in Rooms, NEW u \in Users, Contention!Credit(r, u) PROVE ContentionInv'
  BY <1>4, CreditKeeps
<1>5. ASSUME NEW r \in Rooms, NEW u \in Users, Contention!Conflict(r, u) PROVE ContentionInv'
  <2>1. r \in contention_open /\ Contention!Fail(r) /\ contention_faults' \in 0 .. MaxFaults
    BY <1>5 DEF Contention!Conflict, ContentionInv, Work, ContentionTypes
  <2> QED BY <2>1, FailKeeps
<1>6. ASSUME NEW r \in Rooms, Contention!Victim(r) PROVE ContentionInv'
  <2>1. r \in contention_open /\ Contention!Fail(r) /\ contention_faults' \in 0 .. MaxFaults
    BY <1>6 DEF Contention!Victim, ContentionInv, ContentionTypes
  <2> QED BY <2>1, FailKeeps
<1>7. ASSUME NEW r \in Rooms, Contention!TimeOut(r) PROVE ContentionInv'
  <2>1. r \in contention_open /\ Contention!Fail(r) /\ contention_faults' \in 0 .. MaxFaults
    BY <1>7 DEF Contention!TimeOut, ContentionInv, ContentionTypes,
         Contention!ContentionAssumption
  <2> QED BY <2>1, FailKeeps
<1>8. ASSUME NEW r \in Rooms, Contention!Commit(r) PROVE ContentionInv'
  BY <1>8, CommitKeeps
<1>9. ASSUME NEW u \in Users, Contention!Stake(u) PROVE ContentionInv'
  <2>1. /\ stakes[u] < MaxStakes[u] /\ ~Contention!Contains(queue[u], Api)
        /\ queue' = [queue EXCEPT ![u] = Append(@, Api)]
        /\ UNCHANGED <<settled, contention_awaited, due, Contention!work, balance, stakes,
             contention_faults>>
    BY <1>9 DEF Contention!Stake
  <2>2. /\ queue' \in [Users -> Seq(Rooms \cup {Api})]
        /\ \A v \in Users :
               /\ Contention!IsInjective(queue'[v])
               /\ \A x : Contention!Contains(queue'[v], x)
                    <=> Contention!Contains(queue[v], x) \/ (x = Api /\ v = u)
               /\ \A x : Contention!Holds(x, v) => Contention!Holds(x, v)'
    BY <2>1, Joins
  <2>3. ContentionTypes'
    BY <2>1, <2>2 DEF ContentionInv, ContentionTypes, Contention!work
  <2>4. \A s \in contention_open : \A v \in DOMAIN draft[s] : v \in Users
    BY DEF ContentionInv, Work, ContentionTypes, Contention!ContentionAssumption
  <2>5. Work'
    BY <2>1, <2>2, <2>4 DEF ContentionInv, Work, Contention!work
  <2>6. Api \notin Rooms
    BY DEF Contention!ContentionAssumption
  <2>7. Queues'
    BY <2>1, <2>2, <2>6 DEF ContentionInv, Queues, Contention!work
  <2> QED BY <2>1, <2>3, <2>5, <2>7 DEF ContentionInv, Contention!PaidOncePerRoom
<1>10. ASSUME NEW u \in Users, Contention!CommitStake(u) PROVE ContentionInv'
  BY <1>10, StakeKeeps
<1>11. CASE UNCHANGED Contention!vars
  BY <1>11 DEF Contention!vars, Contention!work, ContentionInv, ContentionTypes, Work, Queues,
       Contention!PaidOncePerRoom, Contention!Holds
<1> QED BY <1>1, <1>2, <1>3, <1>4, <1>5, <1>6, <1>7, <1>8, <1>9, <1>10, <1>11
     DEF Contention!Next, Contention!Settle

\* However the settlements of rooms with common winners, and the stakes of these, meet, fail
\* and are tried again, every settled room has paid each of its winners once (settleRound).
THEOREM PaidOnce ==
  ASSUME Contention!ContentionAssumption
           PROVE Contention!Spec => [](Contention!TypeOK /\ Contention!PaidOncePerRoom)
<1>1. ContentionInv => Contention!TypeOK
  <2> SUFFICES ASSUME ContentionInv PROVE Contention!TypeOK
    OBVIOUS
  <2>1. \A r \in Rooms : /\ todo[r] \subseteq Winners[r] /\ DOMAIN draft[r] \subseteq Winners[r]
                         /\ Contention!Asked(r) # {} => r \in contention_open
    BY DEF ContentionInv, Work, Queues, Contention!Asked
  <2>2. \A u \in Users : Contention!ToSet(queue[u]) \subseteq Rooms \cup {Api}
    BY DEF ContentionInv, ContentionTypes, Contention!ToSet
  <2>3. \A u \in Users : stakes[u] \in 0 .. MaxStakes[u]
    BY DEF ContentionInv, ContentionTypes, Queues, Contention!ContentionAssumption
  <2> QED BY <2>1, <2>2, <2>3 DEF ContentionInv, ContentionTypes, Queues, Contention!TypeOK
<1>2. ContentionInv => Contention!PaidOncePerRoom
  BY DEF ContentionInv
<1> QED BY ContentionInvInit, ContentionInvStep, <1>1, <1>2, PTL DEF Contention!Spec

-----------------------------------------------------------------------------
(* The whole: a part that runs is a run of its component, while the others rest. *)

LEMMA SeatsRun == Spec => Seats!Spec \/ []~(part = "rooms")
<1>1. Init /\ part = "rooms" => Seats!Init
  BY DEF Init
<1>2. [Next]_vars /\ part = "rooms" => [Seats!Next]_(Seats!vars)
  BY DEF Next, vars, roomsVars, Seats!vars
<1>3. [Next]_vars => ((part = "rooms")' <=> part = "rooms")
  BY DEF Next, vars
<1> QED BY <1>1, <1>2, <1>3, PTL DEF Spec, Seats!Spec

LEMMA LobbyRuns == Spec => Lobby!Spec \/ []~(part = "lobby")
<1>1. Init /\ part = "lobby" => Lobby!Init
  BY DEF Init
<1>2. [Next]_vars /\ part = "lobby" => [Lobby!Next]_(Lobby!vars)
  BY DEF Next, vars, lobbyVars, Lobby!vars
<1>3. [Next]_vars => ((part = "lobby")' <=> part = "lobby")
  BY DEF Next, vars
<1> QED BY <1>1, <1>2, <1>3, PTL DEF Spec, Lobby!Spec

LEMMA ViewRuns == Spec => View!Spec \/ []~(part = "round_view")
<1>1. Init /\ part = "round_view" => View!Init
  BY DEF Init
<1>2. [Next]_vars /\ part = "round_view" => [View!Next]_(View!vars)
  BY DEF Next, vars, viewVars, View!vars
<1>3. [Next]_vars => ((part = "round_view")' <=> part = "round_view")
  BY DEF Next, vars
<1> QED BY <1>1, <1>2, <1>3, PTL DEF Spec, View!Spec

LEMMA ConfigRuns == Spec => Config!Spec \/ []~(part = "config")
<1>1. Init /\ part = "config" => Config!Init
  BY DEF Init
<1>2. [Next]_vars /\ part = "config" => [Config!Next]_(Config!vars)
  BY DEF Next, vars, configVars, Config!vars, Config!engine, Config!bets
<1>3. [Next]_vars => ((part = "config")' <=> part = "config")
  BY DEF Next, vars
<1> QED BY <1>1, <1>2, <1>3, PTL DEF Spec, Config!Spec

LEMMA EngineRuns == Spec => Engine!Spec \/ []~(part = "engine")
<1>1. Init /\ part = "engine" => Engine!Init
  BY DEF Init
<1>2. [Next]_vars /\ part = "engine" => [Engine!Next]_(Engine!vars)
  BY DEF Next, vars, engineVars, Engine!vars
<1>3. [Next]_vars => ((part = "engine")' <=> part = "engine")
  BY DEF Next, vars
<1> QED BY <1>1, <1>2, <1>3, PTL DEF Spec, Engine!Spec

LEMMA ContentionRuns == Spec => Contention!Spec \/ []~(part = "contention")
<1>1. Init /\ part = "contention" => Contention!Init
  BY DEF Init
<1>2. [Next]_vars /\ part = "contention" => [Contention!Next]_(Contention!vars)
  BY DEF Next, vars, contentionVars, Contention!vars, Contention!work
<1>3. [Next]_vars => ((part = "contention")' <=> part = "contention")
  BY DEF Next, vars
<1> QED BY <1>1, <1>2, <1>3, PTL DEF Spec, Contention!Spec

\* The variables of the part that runs keep their types, whatever the bounds (each
\* component of this module).
THEOREM TypesKept == Spec => []TypeOK
<1>1. /\ Seats!Spec => []Seats!TypeOK
      /\ Lobby!Spec => []Lobby!TypeOK
      /\ View!Spec => []View!TypeOK
      /\ Config!Spec => []Config!TypeOK
      /\ Engine!Spec => []Engine!TypeOK
      /\ Contention!Spec => []Contention!TypeOK
  BY TablesAssumption, SeatsSafe, LobbySafe, ViewSafe, RulesSafe, EngineSafe, PaidOnce, PTL
     DEF TablesAssumption
<1> QED BY <1>1, SeatsRun, LobbyRuns, ViewRuns, ConfigRuns, EngineRuns, ContentionRuns, PTL
        DEF TypeOK

\* Rooms of every capacity, with any players, codes, settings and stakes, seat no more than
\* they hold as long as joins end within their mutex, only whom they invited, under a code of
\* their own, and take the stakes the platform allows (game.service.ts).
THEOREM RulesKept == Spec => []RoomRulesKept
<1>1. /\ Seats!Spec => []Seats!CapacityKept
      /\ Lobby!Spec => [](Lobby!OnlyTheInvited /\ Lobby!CodesAreOnesOwn)
      /\ Config!Spec => [](Config!NeverWidened /\ Config!StakeInForce)
  BY TablesAssumption, CapacitySafe, LobbySafe, RulesSafe, PTL DEF TablesAssumption
<1> QED BY <1>1, SeatsRun, LobbyRuns, ConfigRuns, PTL DEF RoomRulesKept

\* Any number of rooms, whoever their winners are, with stakes taken between and settlements
\* that fail, are chosen as victims or time out, pay each winner once, and the engine exits
\* with no transaction open but those of ticks that failed (settlement.ts, scheduler.ts).
THEOREM EachPaidOnce == Spec => []PaidOncePerRoom
<1>1. /\ Contention!Spec => []Contention!PaidOncePerRoom
      /\ Engine!Spec => []Engine!NothingAbandoned
  BY TablesAssumption, PaidOnce, EngineSafe, PTL DEF TablesAssumption
<1> QED BY <1>1, ContentionRuns, EngineRuns, PTL DEF PaidOncePerRoom

\* No step of others takes a seat, a round of the history or the mutex of a join away, and no
\* tick begins while the one before is in a room, unless that one has failed: the rooms of a
\* failed tick are the only ones left to themselves (game.service.ts, scheduler.ts).
THEOREM GivenIsKept == Spec => NothingTakenBack
<1>1. /\ Seats!Spec => [][Seats!SeatKept /\ Seats!OwnLockOnly]_(Seats!vars)
      /\ View!Spec => [][View!HistoryKept]_(View!vars)
      /\ Engine!Spec => [][Engine!TicksDoNotOverlap]_(Engine!vars)
  BY TablesAssumption, SeatsSafe, OwnLocksOnly, ViewSafe, EngineSafe, PTL
     DEF TablesAssumption, Seats!Spec
<1>2. [Next]_vars /\ part = "rooms" /\ UNCHANGED Seats!vars => UNCHANGED vars
  BY DEF Next, vars, roomsVars, lobbyVars, viewVars, configVars, fairnessVars, realtimeVars,
         engineVars, contentionVars, settlementVars, Seats!vars
<1>3. [Next]_vars /\ part = "round_view" /\ UNCHANGED View!vars => UNCHANGED vars
  BY DEF Next, vars, roomsVars, lobbyVars, viewVars, configVars, fairnessVars, realtimeVars,
         engineVars, contentionVars, settlementVars, View!vars
<1>4. [Next]_vars /\ part = "engine" /\ UNCHANGED Engine!vars => UNCHANGED vars
  BY DEF Next, vars, roomsVars, lobbyVars, viewVars, configVars, fairnessVars, realtimeVars,
         engineVars, contentionVars, settlementVars, Engine!vars
<1> DEFINE Step ==
        /\ part = "rooms" => Seats!SeatKept /\ Seats!OwnLockOnly
        /\ part = "round_view" => View!HistoryKept
        /\ part = "engine" => Engine!TicksDoNotOverlap
<1>5. /\ [Next]_vars
      /\ part = "rooms" => [Seats!SeatKept /\ Seats!OwnLockOnly]_(Seats!vars)
      /\ part = "round_view" => [View!HistoryKept]_(View!vars)
      /\ part = "engine" => [Engine!TicksDoNotOverlap]_(Engine!vars)
      => [Step]_vars
  BY <1>2, <1>3, <1>4
<1> HIDE DEF Step
<1>6. Spec => [][Step]_vars
  BY <1>1, <1>5, SeatsRun, ViewRuns, EngineRuns, PTL DEF Spec
<1> QED BY <1>6 DEF Step, NothingTakenBack

\* Whoever asks and however often: no round answer shows the outcome, the cards or the seed of
\* a round that is not settled, and a fairness answer shows of it only the seed and what that
\* deals, which it does show (toRoundDto, verifyRound); the other parts of OutcomesFair are
\* counted by TLC.
THEOREM OutcomesWithheld == Spec => [](part = "round_view" => View!RoundsWithhold)
<1>1. View!Spec => []View!RoundsWithhold
  BY TablesAssumption, ViewSafe, PTL DEF TablesAssumption
<1> QED BY <1>1, ViewRuns, PTL
=============================================================================
