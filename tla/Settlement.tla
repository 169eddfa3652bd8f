----------------------------- MODULE Settlement -----------------------------
(***************************************************************************)
(* The bets of one round: GameService.placeBet of the API and settleRound  *)
(* of the engine, which meet on the round row, the bet rows, the wallets   *)
(* and the ledger.                                                         *)
(*                                                                         *)
(* placeBet reads the round outside its transaction (READ COMMITTED), then *)
(* inserts the bet and debits the stake.  Inserting a bet takes a          *)
(* FOR KEY SHARE lock on the round row, its foreign key.  settleRound is   *)
(* one SERIALIZABLE transaction: its snapshot is taken by the statement    *)
(* that asks for the FOR UPDATE lock of the round row, so before that lock *)
(* is granted.  The statements of a movement of one wallet are module      *)
(* Wallet; here a movement is one step under the wallet's row lock.        *)
(***************************************************************************)
EXTENDS Integers, FiniteSets

CONSTANTS Players,    \* placeBet calls that can be open at the same time
          Settlers,   \* engine replicas
          Users,      \* accounts
          Keys,       \* idempotency keys chosen by clients
          Offers,     \* what callers may ask placeBet for
          Deposit,    \* coins of each wallet before the round
          None,       \* owner of a row nobody has locked
          MaxCalls,   \* bound: placeBet calls
          MaxFaults   \* bound: transactions that die

Sides == {"DRAGON", "TIGER", "TIE"}
Offer == [user : Users, key : Keys, side : Sides, amount : Nat \ {0}]

\* The stake bounds of the room leave positive amounts only.
ASSUME SettlementAssumption ==
    /\ Players \cap Settlers = {} /\ None \notin Players \cup Settlers
    /\ Offers \subseteq Offer /\ Offers # {}
    /\ Deposit \in Nat /\ MaxCalls \in Nat /\ MaxFaults \in Nat

VARIABLES
    state,    \* game_rounds.state
    draw,     \* what the committed seed will show
    bets,     \* bet_selections of the round, by (user, idempotency key)
    ledger,   \* wallet_ledgers rows of the round
    balance,  \* virtual_wallets.balance
    holder,   \* the settlement that holds the round row FOR UPDATE
    lock,     \* the transaction that holds each wallet row
    draft,    \* the balance that transaction has written
    pc,
    call,     \* the offer each player makes
    todo,     \* the bets a settlement has read and not yet settled
    plan,     \* all the bets it has read
    moved,    \* rows changed since its snapshot: "round", or a user's wallet
    calls, faults

money == <<ledger, balance>>
locks == <<lock, draft>>
work  == <<todo, plan, moved>>
vars  == <<state, draw, bets, money, holder, locks, pc, call, work, calls, faults>>

Procs == Players \cup Settlers
Id(o) == <<o.user, o.key>>

\* payout.ts settleBet with DEFAULT_PAYOUTS.
Multiplier(side) == IF side = "TIE" THEN 8 ELSE 1

\* fault: a tie voids the bet.
VerdictVoided(side, outcome) ==
    IF side = outcome THEN "WON" ELSE IF outcome = "TIE" THEN "VOIDED" ELSE "LOST"

Verdict(side, outcome) ==
    IF side = outcome THEN "WON" ELSE IF outcome = "TIE" THEN "REFUNDED" ELSE "LOST"

Payout(side, amount, outcome) ==
    CASE Verdict(side, outcome) = "WON"      -> amount + amount * Multiplier(outcome)
      [] Verdict(side, outcome) = "REFUNDED" -> (amount * 50) \div 100
      [] OTHER -> 0

Due(id)  == Payout(bets[id].side, bets[id].amount, draw)
Kind(id) == IF Verdict(bets[id].side, draw) = "WON" THEN "WIN" ELSE "REFUND"

Entry(id, type, amount) == [bet |-> id, type |-> type, amount |-> amount]

Go(p, where) == pc' = [pc EXCEPT ![p] = where]

\* An open bet holds the round row FOR KEY SHARE.
HasInserted(p) == pc[p] \in {"debit", "commit"}
InSnapshot(s)  == pc[s] \in {"lock", "pay"}

\* What the settlements with a snapshot learn of rows another commit changes.
Touch(rows) == [s \in Settlers |-> IF InSnapshot(s) THEN moved[s] \cup rows ELSE moved[s]]

\* Row locks and unsaved balances go with the transaction.

Unlock(p) ==
    /\ lock'  = [u \in Users |-> IF lock[u] = p THEN None ELSE lock[u]]
    /\ draft' = [u \in Users |-> IF lock[u] = p THEN 0 ELSE draft[u]]

-----------------------------------------------------------------------------
Init ==
    /\ state = "BETTING" /\ draw \in Sides
    /\ bets = <<>> /\ ledger = {}
    /\ balance = [u \in Users |-> Deposit]
    /\ holder = None
    /\ lock = [u \in Users |-> None] /\ draft = [u \in Users |-> 0]
    /\ pc = [p \in Procs |-> "idle"]
    /\ call = [p \in Players |-> CHOOSE o \in Offers : TRUE]
    /\ todo = [s \in Settlers |-> {}] /\ plan = todo /\ moved = todo
    /\ calls = 0 /\ faults = 0

(* placeBet.                                                               *)

\* The round is read, and the call refused unless it is BETTING, before the
\* transaction begins.  bettingEndedAt is null while the state is BETTING.
ReadRound(p, o) ==
    /\ pc[p] = "idle" /\ calls < MaxCalls
    /\ state = "BETTING"
    /\ calls' = calls + 1
    /\ call' = [call EXCEPT ![p] = o]
    /\ Go(p, "insert")
    /\ UNCHANGED <<state, draw, bets, money, holder, locks, work, faults>>

\* The insert waits for an open insert of the same bet and for a settlement that
\* holds the round row; it asks neither for the state of the round.
CanInsert(p) ==
    /\ pc[p] = "insert"
    /\ holder = None
    /\ \A q \in Players : HasInserted(q) => Id(call[q]) # Id(call[p])

InsertBet(p) ==
    /\ CanInsert(p)
    /\ Id(call[p]) \notin DOMAIN bets
    /\ Go(p, "debit")
    /\ UNCHANGED <<state, draw, bets, money, holder, locks, call, work, calls, faults>>

BetAlreadyPlaced(p) ==
    /\ CanInsert(p)
    /\ Id(call[p]) \in DOMAIN bets
    /\ Go(p, "idle")
    /\ UNCHANGED <<state, draw, bets, money, holder, locks, call, work, calls, faults>>

Solvent(p) == balance[call[p].user] >= call[p].amount

Debit(p) ==
    LET u == call[p].user IN
    /\ pc[p] = "debit" /\ lock[u] = None
    /\ Solvent(p)
    /\ lock'  = [lock EXCEPT ![u] = p]
    /\ draft' = [draft EXCEPT ![u] = balance[u] - call[p].amount]
    /\ Go(p, "commit")
    /\ UNCHANGED <<state, draw, bets, money, holder, call, work, calls, faults>>

\* The debit refuses, and the bet goes with the transaction.
Insolvent(p) ==
    /\ pc[p] = "debit" /\ lock[call[p].user] = None
    /\ ~Solvent(p)
    /\ Go(p, "idle")
    /\ UNCHANGED <<state, draw, bets, money, holder, locks, call, work, calls, faults>>

CommitBet(p) ==
    LET o == call[p] IN
    /\ pc[p] = "commit"
    /\ bets' = [id \in DOMAIN bets \cup {Id(o)} |->
                   IF id = Id(o) THEN [side |-> o.side, amount |-> o.amount,
                                       status |-> "PLACED", payout |-> 0]
                                 ELSE bets[id]]
    /\ ledger'  = ledger \cup {Entry(Id(o), "BET", -o.amount)}
    /\ balance' = [balance EXCEPT ![o.user] = draft[o.user]]
    /\ moved'   = Touch({o.user})
    /\ Unlock(p)
    /\ Go(p, "idle")
    /\ UNCHANGED <<state, draw, holder, call, todo, plan, calls, faults>>

(* The engine.                                                             *)

\* The scheduler reads the round and acts on what it read.
ReadDue(s) ==
    /\ pc[s] = "idle"
    /\ \/ state = "BETTING" /\ Go(s, "draw")
       \/ state = "DRAWING" /\ Go(s, "settle")
    /\ UNCHANGED <<state, draw, bets, money, holder, locks, call, work, calls, faults>>

\* beginDrawing updates the round by id, whatever its state is by now.
BeginDrawing(s) ==
    /\ pc[s] = "draw" /\ holder = None
    /\ state' = "DRAWING"
    /\ moved' = Touch({"round"})
    /\ Go(s, "idle")
    /\ UNCHANGED <<draw, bets, money, holder, locks, call, todo, plan, calls, faults>>

\* BEGIN, and the snapshot of the first statement.
Snapshot(s) ==
    /\ pc[s] = "settle"
    /\ plan' = [plan EXCEPT ![s] = {id \in DOMAIN bets : bets[id].status = "PLACED"}]
    /\ todo' = [todo EXCEPT ![s] = plan'[s]]
    /\ Go(s, "lock")
    /\ UNCHANGED <<state, draw, bets, money, holder, locks, call, moved, calls, faults>>

EndSettlement(s) ==
    /\ Go(s, "idle")
    /\ holder' = IF holder = s THEN None ELSE holder
    /\ Unlock(s)
    /\ todo' = [todo EXCEPT ![s] = {}]
    /\ plan' = [plan EXCEPT ![s] = {}]
    /\ UNCHANGED <<draw, call, calls>>

Rollback(s) ==
    /\ EndSettlement(s)
    /\ moved' = [moved EXCEPT ![s] = {}]
    /\ UNCHANGED <<state, bets, money>>

\* FOR UPDATE waits for the bets in flight and for another settlement.
CanLockRound(s) ==
    /\ pc[s] = "lock"
    /\ holder = None
    /\ \A p \in Players : ~HasInserted(p)

\* A settled round ends the transaction; a round row that changed since the
\* snapshot fails it (SQLSTATE 40001).
NothingToSettle(s) ==
    /\ CanLockRound(s)
    /\ state = "SETTLED" \/ "round" \in moved[s]
    /\ Rollback(s)
    /\ UNCHANGED faults

\* fault: settles a settled round again.
LockRoundSettled(s) ==
    /\ CanLockRound(s)
    /\ "round" \notin moved[s]
    /\ holder' = s
    /\ Go(s, "pay")
    /\ UNCHANGED <<state, draw, bets, money, locks, call, work, calls, faults>>

LockRound(s) ==
    /\ CanLockRound(s)
    /\ state # "SETTLED" /\ "round" \notin moved[s]
    /\ holder' = s
    /\ Go(s, "pay")
    /\ UNCHANGED <<state, draw, bets, money, locks, call, work, calls, faults>>

\* One turn of the loop, over bets in no order: creditWinnings returns when the
\* ledger has its key, waits for the wallet row, and writes the balance it read
\* there plus the payout.
Paid(id) == \E e \in ledger : e.bet = id /\ e.type = Kind(id)

Pass(s, id) ==
    /\ pc[s] = "pay" /\ id \in todo[s]
    /\ Due(id) = 0 \/ Paid(id)
    /\ todo' = [todo EXCEPT ![s] = @ \ {id}]
    /\ UNCHANGED <<state, draw, bets, money, holder, locks, pc, call, plan, moved, calls, faults>>

\* fault: misses its own first payout.
BalanceReadCommitted(s, u) == balance[u]

BalanceRead(s, u) == IF lock[u] = s THEN draft[u] ELSE balance[u]

Credit(s, id) ==
    LET u == id[1] IN
    /\ pc[s] = "pay" /\ id \in todo[s]
    /\ Due(id) > 0 /\ ~Paid(id)
    /\ lock[u] \in {None, s} /\ u \notin moved[s]
    /\ lock'  = [lock EXCEPT ![u] = s]
    /\ draft' = [draft EXCEPT ![u] = BalanceRead(s, u) + Due(id)]
    /\ todo'  = [todo EXCEPT ![s] = @ \ {id}]
    /\ UNCHANGED <<state, draw, bets, money, holder, pc, call, plan, moved, calls, faults>>

\* The wallet changed after the snapshot (40001).
CreditFails(s, id) ==
    /\ pc[s] = "pay" /\ id \in todo[s]
    /\ Due(id) > 0 /\ ~Paid(id)
    /\ lock[id[1]] = None /\ id[1] \in moved[s]
    /\ Rollback(s)
    /\ UNCHANGED faults

Credited(s) == {id \in plan[s] : Due(id) > 0 /\ ~Paid(id)}

Result(id) == [bets[id] EXCEPT !.status = Verdict(bets[id].side, draw), !.payout = Due(id)]

\* fault: marks bets it has not read.
ResultsOfAll(s) ==
    [id \in DOMAIN bets |-> IF bets[id].status = "PLACED" THEN Result(id) ELSE bets[id]]

Results(s) == [id \in DOMAIN bets |-> IF id \in plan[s] THEN Result(id) ELSE bets[id]]

CommitSettlement(s) ==
    /\ pc[s] = "pay" /\ todo[s] = {}
    /\ state' = "SETTLED"
    /\ bets' = Results(s)
    /\ ledger'  = ledger \cup {Entry(id, Kind(id), Due(id)) : id \in Credited(s)}
    /\ balance' = [u \in Users |-> IF lock[u] = s THEN draft[u] ELSE balance[u]]
    /\ moved'   = [Touch({"round"} \cup {u \in Users : lock[u] = s}) EXCEPT ![s] = {}]
    /\ EndSettlement(s)
    /\ UNCHANGED faults

(* Faults.  A timeout, a lost connection or a crash rolls the transaction back. *)

Die(p) ==
    /\ pc[p] # "idle" /\ faults < MaxFaults
    /\ faults' = faults + 1
    /\ IF p \in Settlers
       THEN Rollback(p)
       ELSE /\ Go(p, "idle") /\ Unlock(p)
            /\ UNCHANGED <<state, draw, bets, money, holder, call, work, calls>>

PlayerStep(p) ==
    InsertBet(p) \/ BetAlreadyPlaced(p) \/ Debit(p) \/ Insolvent(p) \/ CommitBet(p)

SettlerStep(s) ==
    \/ ReadDue(s) \/ BeginDrawing(s) \/ Snapshot(s) \/ NothingToSettle(s) \/ LockRound(s)
    \/ \E id \in todo[s] : Pass(s, id) \/ Credit(s, id) \/ CreditFails(s, id)
    \/ CommitSettlement(s)

Next ==
    \/ \E p \in Players : PlayerStep(p) \/ \E o \in Offers : ReadRound(p, o)
    \/ \E s \in Settlers : SettlerStep(s)
    \/ \E p \in Procs : Die(p)

Spec == Init /\ [][Next]_vars

\* The database answers every statement whose rows are free, and the scheduler's
\* interval keeps every replica ticking.
FairSpec ==
    /\ Spec
    /\ \A p \in Players : WF_vars(PlayerStep(p))
    /\ \A s \in Settlers : WF_vars(SettlerStep(s))

-----------------------------------------------------------------------------
Statuses == {"PLACED", "WON", "LOST", "REFUNDED"}
Ids == Users \X Keys
BetRow == [side : Sides, amount : Nat, status : Statuses, payout : Nat]

TypeOK ==
    /\ state \in {"BETTING", "DRAWING", "SETTLED"} /\ draw \in Sides
    /\ bets \in [DOMAIN bets -> BetRow] /\ DOMAIN bets \subseteq Ids
    /\ \A e \in ledger : /\ e.bet \in DOMAIN bets /\ e.amount \in Int
                         /\ e.type \in {"BET", "WIN", "REFUND"}
    /\ balance \in [Users -> Nat] /\ draft \in [Users -> Nat]
    /\ holder \in Settlers \cup {None} /\ lock \in [Users -> Procs \cup {None}]
    /\ pc \in [Procs -> {"idle", "insert", "debit", "commit", "draw", "settle", "lock", "pay"}]
    /\ call \in [Players -> Offers]
    /\ todo \in [Settlers -> SUBSET DOMAIN bets] /\ plan \in [Settlers -> SUBSET DOMAIN bets]
    /\ moved \in [Settlers -> SUBSET (Users \cup {"round"})]
    /\ \A s \in Settlers : todo[s] \subseteq plan[s]
    /\ calls \in 0 .. MaxCalls /\ faults \in 0 .. MaxFaults

\* game.service.ts:440-442, settlement.ts:18-21: the ledger holds the stake of
\* every bet, the payout of every settled bet that has one, and nothing else:
\* no stake without a bet, no bet paid twice, or by a draw that is not the round's.
Owed(id) ==
    LET b == bets[id] IN
    {Entry(id, "BET", -b.amount)} \cup
    (IF b.status # "PLACED" /\ Due(id) > 0 THEN {Entry(id, Kind(id), Due(id))} ELSE {})

PaidExactly ==
    /\ ledger = UNION {Owed(id) : id \in DOMAIN bets}
    /\ \A id \in DOMAIN bets : bets[id].status # "PLACED" =>
          bets[id].status = Verdict(bets[id].side, draw) /\ bets[id].payout = Due(id)

\* The sum of f over S, where f has natural values, as the number of its units.
Total(f, S) == Cardinality(UNION {{x} \X (1 .. f[x]) : x \in S})

\* Bets and settlements behave like the atomic ones of BetBook: a dead, repeated or
\* stale transaction shows nobody a stake without its bet or half a settlement, and
\* a result is final, even when a replica that stalled draws the round again.
Book == INSTANCE BetBook

ImplementsBetBook == Book!Spec

\* No update of a wallet is lost between the API and the engine: a balance is the
\* deposit and the movements of its ledger.
Coins  == [e \in ledger |-> IF e.amount < 0 THEN -e.amount ELSE e.amount]
In(u)  == {e \in ledger : e.bet[1] = u /\ e.amount > 0}
Out(u) == {e \in ledger : e.bet[1] = u /\ e.amount < 0}

CoinsBalance ==
    \A u \in Users : balance[u] = Deposit + Total(Coins, In(u)) - Total(Coins, Out(u))

\* A bet committed before betting closed is settled, through conflicts, dead
\* transactions and stale redraws.
InTimeBetsResolve ==
    \A id \in Ids :
        id \in DOMAIN bets /\ state = "BETTING"
            ~> id \in DOMAIN bets /\ bets[id].status # "PLACED"

\* The round comes to rest settled and every call ends: nobody waits for ever for
\* a row or for somebody who waits for it.
RoundSettles  == <>[](state = "SETTLED")
EveryBetEnds  == \A p \in Players : pc[p] # "idle" ~> pc[p] = "idle"

\* game.service.ts:476-478: no bet is taken on a known outcome.
NoBetOnKnownOutcome ==
    [][\A id \in DOMAIN bets' \ DOMAIN bets : state # "SETTLED"]_vars

\* docs/DEPLOYMENT.md:181: no bet is left unresolved.
NoBetLeftUnresolved ==
    \A id \in Ids : id \in DOMAIN bets ~> id \in DOMAIN bets /\ bets[id].status # "PLACED"
=============================================================================
