------------------------------- MODULE Rounds -------------------------------
(***************************************************************************)
(* RoundScheduler of the game engine: several replicas advance the rounds  *)
(* of one room, BETTING -> DRAWING -> SETTLED -> next round, each tick     *)
(* under a Redis lock that expires.                                        *)
(*                                                                         *)
(* Each awaited call of advanceRoom (a Redis command, a query, a write, a  *)
(* publish) is a step.  What a replica read is only its program counter    *)
(* and the round number it carries, so everything it does later is done on *)
(* what may be stale by then.                                              *)
(*                                                                         *)
(* Time is counted in ticks.  A timestamp is kept as its age, no further   *)
(* than the last value the code compares it with.                          *)
(***************************************************************************)
EXTENDS Integers, Sequences

CONSTANTS Replicas,
          Betting, Drawing, Result,  \* config.phases, in ticks
          LockTtl,                   \* config.lockTtlMs, in ticks
          Stalls,     \* may a replica outlive its lock?
          None,       \* owner of a free lock
          Gone,       \* owner of the lock of a replica that crashed
          MaxRounds,  \* bound: rounds of the room
          MaxFaults   \* bound: crashes and failed calls

ASSUME RoundsAssumption ==
    /\ Betting \in Nat \ {0} /\ Drawing \in Nat \ {0} /\ Result \in Nat \ {0}
    /\ LockTtl \in Nat \ {0}
    /\ Stalls \in BOOLEAN
    /\ None \notin Replicas /\ Gone \notin Replicas /\ None # Gone
    /\ MaxRounds \in Nat /\ MaxFaults \in Nat

VARIABLES
    rounds,  \* game_rounds of the room; the index is roundNumber
    said,    \* the last event published about each round
    owner,   \* the token in lock:room:{id}
    ttl,     \* ticks until Redis drops the lock
    lease,   \* ticks left of the time each replica asked the lock for
    pc,      \* the next call of each replica
    seen,    \* the round it carries
    faults

vars == <<rounds, said, owner, ttl, lease, pc, seen, faults>>

Null == -1
Round == [state : {"BETTING", "DRAWING", "SETTLED"},
          age : Nat,            \* since bettingStartedAt, or bettingEndedAt
          settled : Null .. Result]  \* since settledAt

Busy(r) == pc[r] # "idle"

Go(r, where) == pc' = [pc EXCEPT ![r] = where]
Carry(r, n)  == seen' = [seen EXCEPT ![r] = n]

-----------------------------------------------------------------------------
Init ==
    /\ rounds = <<>>
    /\ said   = <<>>
    /\ owner  = None
    /\ ttl    = 0
    /\ lease  = [r \in Replicas |-> 0]
    /\ pc     = [r \in Replicas |-> "idle"]
    /\ seen   = [r \in Replicas |-> 0]
    /\ faults = 0

\* fault: SET without NX.
AcquireAnyway(r) ==
    /\ ~Busy(r)
    /\ owner' = r
    /\ ttl'   = LockTtl
    /\ lease' = [lease EXCEPT ![r] = LockTtl]
    /\ Go(r, "look")
    /\ UNCHANGED <<rounds, said, seen, faults>>

\* SET NX PX.  The flag `running` keeps a replica from starting a second tick.
Acquire(r) ==
    /\ ~Busy(r)
    /\ owner = None
    /\ owner' = r
    /\ ttl'   = LockTtl
    /\ lease' = [lease EXCEPT ![r] = LockTtl]
    /\ Go(r, "look")
    /\ UNCHANGED <<rounds, said, seen, faults>>

\* The newest round that is BETTING or DRAWING, and whether its phase is over.
Live == {n \in 1 .. Len(rounds) : rounds[n].state # "SETTLED"}

IsNewest(n, S) == n \in S /\ \A m \in S : m <= n

\* fault: a round that is DRAWING does not count.
FindNoBetting(r) ==
    /\ pc[r] = "look"
    /\ \A n \in Live : rounds[n].state # "BETTING"
    /\ Go(r, "previous")
    /\ UNCHANGED <<rounds, said, owner, ttl, lease, seen, faults>>

FindNoRound(r) ==
    /\ pc[r] = "look"
    /\ Live = {}
    /\ Go(r, "previous")
    /\ UNCHANGED <<rounds, said, owner, ttl, lease, seen, faults>>

FindBetting(r) ==
    /\ pc[r] = "look"
    /\ \E n \in Live :
          /\ IsNewest(n, Live)
          /\ rounds[n].state = "BETTING"
          /\ Go(r, IF rounds[n].age >= Betting THEN "draw" ELSE "release")
          /\ Carry(r, n)
    /\ UNCHANGED <<rounds, said, owner, ttl, lease, faults>>

FindDrawing(r) ==
    /\ pc[r] = "look"
    /\ \E n \in Live :
          /\ IsNewest(n, Live)
          /\ rounds[n].state = "DRAWING"
          /\ Go(r, IF rounds[n].age >= Drawing THEN "settle" ELSE "release")
          /\ Carry(r, n)
    /\ UNCHANGED <<rounds, said, owner, ttl, lease, faults>>

\* fault: the result phase is forgotten.
ResultSkipped(n) == TRUE

\* openRound, first half: the newest round of any state; the result stays on
\* screen before the next round opens.
ResultShown(n) == n = 0 \/ rounds[n].settled = Null \/ rounds[n].settled >= Result

\* fault: the number is not incremented.
ReadPreviousNumber(r) ==
    /\ pc[r] = "previous"
    /\ LET n == Len(rounds) IN
       /\ Go(r, IF ResultShown(n) /\ n < MaxRounds THEN "create" ELSE "release")
       /\ Carry(r, n)
    /\ UNCHANGED <<rounds, said, owner, ttl, lease, faults>>

ReadPrevious(r) ==
    /\ pc[r] = "previous"
    /\ LET n == Len(rounds) IN
       /\ Go(r, IF ResultShown(n) /\ n < MaxRounds THEN "create" ELSE "release")
       /\ Carry(r, n + 1)
    /\ UNCHANGED <<rounds, said, owner, ttl, lease, faults>>

\* Second half.  The unique index on (roomId, roundNumber) refuses a number
\* that exists; the error is logged and the tick ends.
CreateRound(r) ==
    /\ pc[r] = "create"
    /\ IF seen[r] <= Len(rounds)
       THEN Go(r, "release") /\ UNCHANGED <<rounds, said>>
       ELSE /\ rounds' = Append(rounds, [state |-> "BETTING", age |-> 0, settled |-> Null])
            /\ said'   = Append(said, "nothing")
            /\ Go(r, "opened")
    /\ UNCHANGED <<owner, ttl, lease, seen, faults>>

\* beginDrawing updates by id alone: the state the row has by now is not asked.
BeginDrawing(r) ==
    /\ pc[r] = "draw"
    /\ rounds' = [rounds EXCEPT ![seen[r]] =
                      [state |-> "DRAWING", age |-> 0, settled |-> @.settled]]
    /\ Go(r, "drawing")
    /\ UNCHANGED <<said, owner, ttl, lease, seen, faults>>

\* fault: looks at settledAt, not at the state.
SettleUndated(r) ==
    /\ pc[r] = "settle"
    /\ IF rounds[seen[r]].settled # Null
       THEN Go(r, "release") /\ UNCHANGED rounds
       ELSE /\ rounds' = [rounds EXCEPT ![seen[r]] =
                             [state |-> "SETTLED", age |-> 0, settled |-> 0]]
            /\ Go(r, "settled")
    /\ UNCHANGED <<said, owner, ttl, lease, seen, faults>>

\* settleRound is one SERIALIZABLE transaction that locks the round row first
\* (module Settlement opens it up); on a settled round it does nothing.
SettleRound(r) ==
    /\ pc[r] = "settle"
    /\ IF rounds[seen[r]].state = "SETTLED"
       THEN Go(r, "release") /\ UNCHANGED rounds
       ELSE /\ rounds' = [rounds EXCEPT ![seen[r]] =
                             [state |-> "SETTLED", age |-> 0, settled |-> 0]]
            /\ Go(r, "settled")
    /\ UNCHANGED <<said, owner, ttl, lease, seen, faults>>

\* Publishing comes after the commit it reports.
Announce(r) ==
    /\ pc[r] \in {"opened", "drawing", "settled"}
    /\ said' = [said EXCEPT ![seen[r]] = pc[r]]
    /\ Go(r, "release")
    /\ UNCHANGED <<rounds, owner, ttl, lease, seen, faults>>

\* fault: deletes the lock of whoever has it.
ReleaseAny(r) ==
    /\ pc[r] = "release"
    /\ owner' = None /\ ttl' = 0
    /\ lease' = [lease EXCEPT ![r] = 0]
    /\ Carry(r, 0)
    /\ Go(r, "idle")
    /\ UNCHANGED <<rounds, said, faults>>

\* Compare and delete: a lock that has passed to another token is left alone.
Release(r) ==
    /\ pc[r] = "release"
    /\ IF owner = r
       THEN owner' = None /\ ttl' = 0
       ELSE UNCHANGED <<owner, ttl>>
    /\ lease' = [lease EXCEPT ![r] = 0]
    /\ Carry(r, 0)
    /\ Go(r, "idle")
    /\ UNCHANGED <<rounds, said, faults>>

\* fault: a settlement that failed is announced.
ThrowSwallowed(r) ==
    /\ Busy(r) /\ pc[r] # "release"
    /\ faults < MaxFaults
    /\ faults' = faults + 1
    /\ Go(r, IF pc[r] = "settle" THEN "settled" ELSE "release")
    /\ UNCHANGED <<rounds, said, owner, ttl, lease, seen>>

\* A call that throws ends the tick through `finally`.
Throw(r) ==
    /\ Busy(r) /\ pc[r] # "release"
    /\ faults < MaxFaults
    /\ faults' = faults + 1
    /\ Go(r, "release")
    /\ UNCHANGED <<rounds, said, owner, ttl, lease, seen>>

\* The process dies, or Redis does not answer the release: the lock stays until
\* it expires, held by a token nobody has.  A new process starts idle.
Crash(r) ==
    /\ Busy(r)
    /\ faults < MaxFaults
    /\ faults' = faults + 1
    /\ owner'  = IF owner = r THEN Gone ELSE owner
    /\ lease'  = [lease EXCEPT ![r] = 0]
    /\ Carry(r, 0)
    /\ Go(r, "idle")
    /\ UNCHANGED <<rounds, said, ttl>>

\* One tick of the clock.  Without Stalls a replica that holds the lock ends its
\* tick before the lock expires; nothing in the code enforces that.
Least(a, b) == IF a <= b THEN a ELSE b

Aged(rd) == [rd EXCEPT
    !.age = CASE rd.state = "BETTING" -> Least(@ + 1, Betting)
              [] rd.state = "DRAWING" -> Least(@ + 1, Drawing)
              [] OTHER -> @,
    !.settled = IF @ = Null THEN @ ELSE Least(@ + 1, Result)]

\* fault: SET without PX, the lock of a dead replica stays.
TickWithoutTtl ==
    /\ Stalls \/ owner \notin Replicas \/ ttl > 1
    /\ rounds' = [n \in 1 .. Len(rounds) |-> Aged(rounds[n])]
    /\ ttl'    = IF ttl > 0 THEN ttl - 1 ELSE 0
    /\ owner'  = owner
    /\ lease'  = [r \in Replicas |-> IF lease[r] > 0 THEN lease[r] - 1 ELSE 0]
    /\ UNCHANGED <<said, pc, seen, faults>>

Tick ==
    /\ Stalls \/ owner \notin Replicas \/ ttl > 1
    /\ rounds' = [n \in 1 .. Len(rounds) |-> Aged(rounds[n])]
    /\ ttl'    = IF ttl > 0 THEN ttl - 1 ELSE 0
    /\ owner'  = IF ttl' = 0 THEN None ELSE owner
    /\ lease'  = [r \in Replicas |-> IF lease[r] > 0 THEN lease[r] - 1 ELSE 0]
    /\ UNCHANGED <<said, pc, seen, faults>>

Step(r) ==
    \/ Acquire(r) \/ FindNoRound(r) \/ FindBetting(r) \/ FindDrawing(r)
    \/ ReadPrevious(r) \/ CreateRound(r) \/ BeginDrawing(r) \/ SettleRound(r)
    \/ Announce(r) \/ Release(r)

Next == Tick \/ \E r \in Replicas : Step(r) \/ Throw(r) \/ Crash(r)

Spec == Init /\ [][Next]_vars

\* setInterval keeps every replica ticking, and time passes.
FairSpec == Spec /\ WF_vars(Tick) /\ \A r \in Replicas : WF_vars(Step(r))

-----------------------------------------------------------------------------
RowsOK ==
    /\ rounds \in Seq(Round)
    /\ said   \in Seq({"nothing", "opened", "drawing", "settled"})
    /\ Len(said) = Len(rounds)

ReplicasOK ==
    /\ owner  \in Replicas \cup {None, Gone}
    /\ ttl    \in 0 .. LockTtl
    /\ lease  \in [Replicas -> 0 .. LockTtl]
    /\ pc     \in [Replicas -> {"idle", "look", "previous", "create", "draw", "settle",
                                "opened", "drawing", "settled", "release"}]
    /\ seen   \in [Replicas -> Nat]
    /\ faults \in 0 .. MaxFaults

\* The round a replica is about to write exists, or is the next one.
InRange(r) ==
    /\ pc[r] = "create" => seen[r] \in 1 .. Len(rounds) + 1
    /\ pc[r] \in {"draw", "settle", "opened", "drawing", "settled"} =>
          seen[r] \in 1 .. Len(rounds)

TypeOK == RowsOK /\ ReplicasOK /\ \A r \in Replicas : InRange(r)

\* docs/DEPLOYMENT.md:125-126: no two replicas advance the room at the same time.
OneReplicaActs == \A r, s \in Replicas : Busy(r) /\ Busy(s) => r = s

\* A lock is lost only to its TTL: another replica's late release does not free
\* it (releaseLock compares the token).
LeaseOwned == \A r \in Replicas : Busy(r) /\ lease[r] > 0 => owner = r

\* scheduler.ts:20-21 ("does not double-open"): at most one round of a room is
\* open, and it is the newest.
OneLiveRound == Live \subseteq {Len(rounds)}

\* No client is told of a phase the round has not reached, and what it was told
\* last is never ahead of or behind the row by more than the pending event.
EventsTrue ==
    \A n \in 1 .. Len(rounds) :
        /\ said[n] = "drawing" => rounds[n].state # "BETTING"
        /\ said[n] = "settled" => rounds[n].state = "SETTLED"

\* The betting, drawing and result phases last at least as long as configured,
\* measured where the state changes, not where the clock was read.
BettingStep ==
    \A n \in 1 .. Len(rounds) :
        rounds[n].state = "BETTING" /\ rounds'[n].state # "BETTING" =>
            rounds[n].age >= Betting

PhaseStep ==
    /\ BettingStep
    /\ \A n \in 1 .. Len(rounds) :
          rounds[n].state = "DRAWING" /\ rounds'[n].state # "DRAWING" =>
              rounds[n].age >= Drawing
    /\ Len(rounds') > Len(rounds) =>
          Len(rounds) = 0 \/ rounds[Len(rounds)].settled >= Result

PhasesLast == [][PhaseStep]_vars

\* docs/SECURITY.md:36, docs/DEPLOYMENT.md:125-126: settled rows are never edited;
\* one replica settles a given round, once.
SettledStep ==
    \A n \in 1 .. Len(rounds) :
        rounds[n].state = "SETTLED" =>
            rounds'[n].state = "SETTLED" /\ rounds'[n].settled >= rounds[n].settled

SettledIsFinal == [][SettledStep]_vars

\* Every round that opens is settled, and the room goes on to its last round.
EveryRoundSettles ==
    \A n \in 1 .. MaxRounds : (Len(rounds) >= n) ~> (Len(rounds) >= n /\ rounds[n].state = "SETTLED")

RoundsKeepComing == <>(Len(rounds) = MaxRounds)

RoundsGoOn == EveryRoundSettles /\ RoundsKeepComing

\* Even when replicas outlive their locks, the rows come to rest settled.
ComesToRest == <>[](Len(rounds) = MaxRounds /\ Live = {})
=============================================================================
