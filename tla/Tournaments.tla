----------------------------- MODULE Tournaments -----------------------------
(***************************************************************************)
(* TournamentsService.join: three reads, a debit in a transaction of its   *)
(* own (one step, good once per key: see AtomicLedger) and the insert of   *)
(* the player, which (tournament_id, user_id) lets in once.                *)
(*                                                                         *)
(* All entry fees are equal.  Nothing in the repository writes a           *)
(* tournament's state: it changes from outside.                            *)
(***************************************************************************)
EXTENDS Integers, FiniteSets

CONSTANTS Procs,       \* calls that can be open at the same time
          Users,
          Tournaments,
          Free,        \* those with no entry fee
          Seats,       \* maxPlayers of each, 0 for none
          KeysFor,     \* the keys a user's client sends to join a tournament
          MaxFaults,   \* bound: calls that die, debits that are refused
          MayClose     \* whether tournaments stop accepting entries

TournamentsAssumption ==
    /\ Free \subseteq Tournaments
    /\ Seats \in [Tournaments -> Nat]
    /\ DOMAIN KeysFor = Users \X Tournaments /\ \E w \in DOMAIN KeysFor : KeysFor[w] # {}
    /\ MaxFaults \in Nat /\ MayClose \in BOOLEAN

VARIABLES
    open,     \* tournaments that are UPCOMING or LIVE
    players,  \* tournament_players rows, <<user, tournament>>
    fees,     \* TOURNAMENT_ENTRY rows of wallet_ledgers
    pc,
    call,     \* user, tournament and key of each call
    faults

rows == <<open, players, fees>>
vars == <<rows, pc, call, faults>>

Fee(c) == [user |-> c.user, tournament |-> c.tournament, key |-> c.key]
FeesOf(u, t) == {f \in fees : f.user = u /\ f.tournament = t}
PlayersOf(t) == {w \in players : w[2] = t}
Full(t) == Seats[t] # 0 /\ Cardinality(PlayersOf(t)) >= Seats[t]
Joins == UNION {{[user |-> w[1], tournament |-> w[2], key |-> k] : k \in KeysFor[w]} :
                   w \in Users \X Tournaments}
Seat(c) == <<c.user, c.tournament>>

Go(p, where) == pc' = [pc EXCEPT ![p] = where]
Idle == CHOOSE c \in Joins : TRUE
End(p) == Go(p, "idle") /\ call' = [call EXCEPT ![p] = Idle]

-----------------------------------------------------------------------------
Init ==
    /\ open = Tournaments /\ players = {} /\ fees = {}
    /\ pc = [p \in Procs |-> "idle"] /\ call = [p \in Procs |-> Idle]
    /\ faults = 0

\* The tournament and the number of its players; a refusal changes nothing.
GetById(p, c) ==
    /\ pc[p] = "idle"
    /\ c.tournament \in open /\ ~Full(c.tournament)
    /\ call' = [call EXCEPT ![p] = c]
    /\ Go(p, "existing")
    /\ UNCHANGED <<rows, faults>>

\* fault: a free tournament is charged for.
ExistingCharges(p) ==
    /\ pc[p] = "existing"
    /\ IF Seat(call[p]) \in players THEN End(p) ELSE Go(p, "debit") /\ UNCHANGED call
    /\ UNCHANGED <<rows, faults>>

Existing(p) ==
    /\ pc[p] = "existing"
    /\ IF Seat(call[p]) \in players
       THEN End(p)
       ELSE /\ Go(p, IF call[p].tournament \in Free THEN "create" ELSE "debit")
            /\ UNCHANGED call
    /\ UNCHANGED <<rows, faults>>

\* fault: the key is made by the call.
DebitAgain(p) ==
    /\ pc[p] = "debit"
    /\ fees' = fees \cup {[Fee(call[p]) EXCEPT !.key = <<p, faults>>]}
    /\ Go(p, "create")
    /\ UNCHANGED <<open, players, call, faults>>
\* A key that was used, by whom and for what does not matter, moves nothing.

Debit(p) ==
    /\ pc[p] = "debit"
    /\ fees' = IF \E f \in fees : f.key = call[p].key
               THEN fees ELSE fees \cup {Fee(call[p])}
    /\ Go(p, "create")
    /\ UNCHANGED <<open, players, call, faults>>

\* The insert; a second row of the user is refused.
Create(p) ==
    /\ pc[p] = "create"
    /\ players' = players \cup {Seat(call[p])}
    /\ End(p)
    /\ UNCHANGED <<open, fees, faults>>

Close(t) ==
    /\ MayClose /\ t \in open
    /\ open' = open \ {t}
    /\ UNCHANGED <<players, fees, pc, call, faults>>

\* A call dies between two statements, or the debit is refused.
Die(p) ==
    /\ pc[p] # "idle" /\ faults < MaxFaults
    /\ faults' = faults + 1
    /\ End(p)
    /\ UNCHANGED rows

Step(p) == Existing(p) \/ Debit(p) \/ Create(p)

Next ==
    \/ \E p \in Procs : Step(p) \/ Die(p) \/ (\E c \in Joins : GetById(p, c))
    \/ \E t \in Tournaments : Close(t)

Spec == Init /\ [][Next]_vars

\* A call goes on; a client that has not joined tries again, with the same key.
Retry(c) == Seat(c) \notin players /\ \E p \in Procs : GetById(p, c)

FairSpec ==
    /\ Spec
    /\ \A p \in Procs : WF_vars(Step(p))
    /\ \A c \in Joins : SF_vars(Retry(c))
-----------------------------------------------------------------------------
TypeOK ==
    /\ open \subseteq Tournaments
    /\ players \subseteq Users \X Tournaments
    /\ \A f, g \in fees : f.key = g.key => f = g
    /\ \A f \in fees : f.tournament \notin Free
    /\ pc \in [Procs -> {"idle", "existing", "debit", "create"}]
    /\ call \in [Procs -> Joins] /\ faults \in 0 .. MaxFaults

\* "wallet ledger: -entry_fee (source=tournament, idempotent), tournament_players
\* row created" (PLAN.md 565-566): whoever is in a tournament has paid for it,
PlayersPaid ==
    \A w \in players : w[2] \notin Free => FeesOf(w[1], w[2]) # {}

\* and nobody pays for one twice, however often and however many at once they try.
ChargedOnce ==
    \A u \in Users, t \in Tournaments : Cardinality(FeesOf(u, t)) <= 1

\* A fee that was kept when its call died is not lost: the retry, whose debit is
\* replayed, seats the user, unless the tournament has filled up or closed.
FeeSeats ==
    \A u \in Users, t \in Tournaments :
        FeesOf(u, t) # {} ~> (<<u, t>> \in players \/ Full(t) \/ t \notin open)

\* "Tournament is full." (tournaments.service.ts 48-49)
SeatsKept == \A t \in Tournaments : Seats[t] # 0 => Cardinality(PlayersOf(t)) <= Seats[t]
-----------------------------------------------------------------------------
\* What is asked of the caller: no key is sent for two entries.
KeysApart == \A v, w \in Users \X Tournaments : KeysFor[v] \cap KeysFor[w] # {} => v = w
\* What is asked of the caller: one that tries again sends the key it had.
KeysKept  == \A w \in Users \X Tournaments : \A k, l \in KeysFor[w] : k = l
=============================================================================
