----------------------------- MODULE Contention -----------------------------
(***************************************************************************)
(* Several rooms settled by one tick of the engine.  Each settlement is a  *)
(* SERIALIZABLE transaction that locks the wallets of its winners one by   *)
(* one, in the order the database lists the bets, and the stakes the API   *)
(* takes lock the same wallets.  Waiting settlements may wait for each     *)
(* other; the database then fails one, and another tick tries again.       *)
(* The round row and the bets of one room are module Settlement; here a    *)
(* settlement is its wallets.                                              *)
(***************************************************************************)
EXTENDS Integers, Sequences, FiniteSets, SequencesExt, Relation

CONSTANTS Rooms,     \* rooms whose round is due
          Users,
          Winners,   \* the users each round pays
          Api,       \* a stake being taken, the other party that locks a wallet
          MaxStakes, \* bound: stakes of each user
          MaxFaults  \* bound: settlements that time out

ContentionAssumption ==
    /\ Winners \in [Rooms -> SUBSET Users] /\ Api \notin Rooms
    /\ MaxStakes \in [Users -> Nat] /\ MaxFaults \in Nat

VARIABLES
    settled,  \* rooms whose round is SETTLED
    awaited,  \* the rooms advanceRoom has not returned for; scheduler.running if any
    due,      \* of these, the rooms that have not begun
    open,     \* rooms with a transaction
    todo,     \* winners the transaction has not credited yet
    draft,    \* the balances it has written
    stale,    \* wallets another commit changed since its snapshot
    queue,    \* who asked for each wallet row, its holder first
    balance,  \* virtual_wallets.balance, from zero, in payouts
    stakes,   \* stakes taken from each user
    faults

work == <<open, todo, draft, stale>>
vars == <<settled, awaited, due, work, queue, balance, stakes, faults>>

Nothing == [u \in {} |-> 0]

Init ==
    /\ settled = {} /\ awaited = {} /\ due = {} /\ open = {}
    /\ todo = [r \in Rooms |-> {}] /\ draft = [r \in Rooms |-> Nothing]
    /\ stale = [r \in Rooms |-> {}]
    /\ queue = [u \in Users |-> <<>>]
    /\ balance = [u \in Users |-> 0] /\ stakes = [u \in Users |-> 0]
    /\ faults = 0

Asked(p)  == {u \in Users : Contains(queue[u], p)}
Holds(p, u) == queue[u] # <<>> /\ Head(queue[u]) = p
Waits(p, u) == Contains(queue[u], p) /\ ~Holds(p, u)

Leave(p) == [u \in Users |-> RemoveFirst(queue[u], p)]

\* What open settlements find changed when they come to these wallets.
Touch(users) == [r \in Rooms |-> IF r \in open THEN stale[r] \cup users ELSE stale[r]]

(* The scheduler.                                                          *)

\* fault: one room a tick, always the same.
DueFirst == {CHOOSE r \in Rooms : TRUE} \ settled
\* Of the rooms tick reads, those whose round is due.

Due == Rooms \ settled

\* tick: nothing while a tick is running, then every room at once.
Tick ==
    /\ awaited = {}
    /\ awaited' = Due
    /\ due' = awaited'
    /\ UNCHANGED <<settled, work, queue, balance, stakes, faults>>

\* BEGIN, the lock of the round row and its bets.
Begin(r) ==
    /\ r \in due
    /\ due'   = due \ {r}
    /\ open'  = open \cup {r}
    /\ todo'  = [todo EXCEPT ![r] = Winners[r]]
    /\ stale' = [stale EXCEPT ![r] = {}]
    /\ UNCHANGED <<settled, awaited, draft, queue, balance, stakes, faults>>

\* The end of a transaction, and of advanceRoom.

End(r) ==
    /\ awaited' = awaited \ {r}
    /\ open'  = open \ {r}
    /\ todo'  = [todo EXCEPT ![r] = {}]
    /\ draft' = [draft EXCEPT ![r] = Nothing]
    /\ queue' = Leave(r)

\* advanceRoom logs the error.
Fail(r) ==
    /\ End(r)
    /\ UNCHANGED <<settled, due, stale, balance, stakes>>

(* creditWinnings.                                                         *)

\* SELECT ... FOR UPDATE of the wallet of the next bet.
Ask(r, u) ==
    /\ r \in open /\ u \in todo[r]
    /\ Asked(r) \cap todo[r] = {}
    /\ queue' = [queue EXCEPT ![u] = Append(@, r)]
    /\ UNCHANGED <<settled, awaited, due, work, balance, stakes, faults>>

\* fault: neither FOR UPDATE nor SERIALIZABLE.
MayReadAny(r, u) ==
    u \in Asked(r) \cap todo[r]

MayRead(r, u) == u \in todo[r] /\ Holds(r, u) /\ u \notin stale[r]

Credit(r, u) ==
    /\ MayRead(r, u)
    /\ draft' = [draft EXCEPT ![r] = [v \in DOMAIN @ \cup {u} |->
                                         IF v = u THEN balance[u] + 1 ELSE @[v]]]
    /\ todo'  = [todo EXCEPT ![r] = @ \ {u}]
    /\ UNCHANGED <<settled, awaited, due, open, stale, queue, balance, stakes, faults>>

\* The wallet changed since the snapshot (40001).
Conflict(r, u) ==
    /\ u \in todo[r] /\ Holds(r, u) /\ u \in stale[r]
    /\ Fail(r)
    /\ UNCHANGED faults

Commit(r) ==
    /\ r \in open /\ todo[r] = {}
    /\ settled' = settled \cup {r}
    /\ balance' = [u \in Users |-> IF u \in DOMAIN draft[r] THEN draft[r][u] ELSE balance[u]]
    /\ stale'   = Touch(DOMAIN draft[r])
    /\ End(r)
    /\ UNCHANGED <<due, stakes, faults>>

(* The database.                                                           *)

\* p waits for everyone before it in the queue of a wallet.
WaitsFor ==
    {pq \in open \X open : \E u \in Users :
        /\ Waits(pq[1], u) /\ Contains(queue[u], pq[2])
        /\ SelectInSeq(queue[u], LAMBDA p : p = pq[2]) < SelectInSeq(queue[u], LAMBDA p : p = pq[1])}

Deadlocked(r) == LET waits == TransitiveClosure([p \in open \X open |-> p \in WaitsFor], open)
                 IN  waits[r, r]

\* deadlock_timeout: a settlement that waits for itself is failed (40P01).
Victim(r) ==
    /\ r \in open /\ Deadlocked(r)
    /\ Fail(r)
    /\ UNCHANGED faults

\* Prisma's timeout of 20 s, or a lost connection.
TimeOut(r) ==
    /\ r \in open /\ faults < MaxFaults
    /\ faults' = faults + 1
    /\ Fail(r)

(* placeBet of the API: one wallet, and nothing else it waits for.         *)

Stake(u) ==
    /\ stakes[u] < MaxStakes[u] /\ ~Contains(queue[u], Api)
    /\ queue' = [queue EXCEPT ![u] = Append(@, Api)]
    /\ UNCHANGED <<settled, awaited, due, work, balance, stakes, faults>>

CommitStake(u) ==
    /\ Holds(Api, u)
    /\ queue'   = [queue EXCEPT ![u] = Tail(@)]
    /\ balance' = [balance EXCEPT ![u] = @ - 1]
    /\ stakes'  = [stakes EXCEPT ![u] = @ + 1]
    /\ stale'   = Touch({u})
    /\ UNCHANGED <<settled, awaited, due, open, todo, draft, faults>>

Settle(r) ==
    \/ Begin(r) \/ Commit(r) \/ Victim(r)
    \/ \E u \in Users : Ask(r, u) \/ Credit(r, u) \/ Conflict(r, u)

Next ==
    \/ Tick
    \/ \E r \in Rooms : Settle(r) \/ TimeOut(r)
    \/ \E u \in Users : Stake(u) \/ CommitStake(u)

Spec == Init /\ [][Next]_vars

\* The interval keeps ticking and the database answers; a wallet row goes to
\* whoever asked first.
FairSpec ==
    /\ Spec
    /\ WF_vars(Tick)
    /\ \A r \in Rooms : WF_vars(Settle(r))
    /\ \A u \in Users : WF_vars(CommitStake(u))

-----------------------------------------------------------------------------
TypeOK ==
    /\ settled \subseteq Rooms /\ open \cup due \subseteq awaited
    /\ open \cap due = {} /\ awaited \subseteq Rooms \ settled
    /\ \A r \in Rooms :
          /\ todo[r] \subseteq Winners[r] /\ DOMAIN draft[r] \subseteq Winners[r]
          /\ Asked(r) # {} => r \in open
    /\ \A u \in Users : IsInjective(queue[u]) /\ ToSet(queue[u]) \subseteq Rooms \cup {Api}
    /\ balance \in [Users -> Int]
    /\ \A u \in Users : stakes[u] \in 0 .. MaxStakes[u]
    /\ faults \in 0 .. MaxFaults

\* settlement.ts:18-21: rooms that pay the same user, and stakes taken meanwhile,
\* lose none of each other's movements, and a settlement tried again after a
\* deadlock or a conflict pays once.
PaidOncePerRoom ==
    \A u \in Users :
        balance[u] = Cardinality({r \in settled : u \in Winners[r]}) - stakes[u]

\* scheduler.ts:60-64: however their wallets cross, every room is settled: no tick
\* waits for ever, and a room that failed is tried by a later one.
EveryRoomSettles == \A r \in Rooms : <>(r \in settled)
=============================================================================
