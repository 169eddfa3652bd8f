---------------------------- MODULE RoundsProofs ----------------------------
(***************************************************************************)
(* Rounds for every number of replicas and rounds and every phase length.  *)
(* A replica owns the lock for as long as its lease lasts (Leases); when   *)
(* no replica outlives its lock, what a replica read stays true until it   *)
(* acts on it (Fresh), and the rows go forward only.                       *)
(***************************************************************************)
EXTENDS Rounds, SequenceTheorems, TLAPS

Leases ==
    \A r \in Replicas : lease[r] > 0 => owner = r /\ ttl = lease[r]

Held == ~Stalls => \A r \in Replicas : Busy(r) => lease[r] > 0

\* What replica r read still holds.
ReadTrue(r) ==
    /\ pc[r] = "previous" => Live = {}
    /\ pc[r] = "create" => /\ Live = {}
                           /\ seen[r] = Len(rounds) + 1
                           /\ Len(rounds) = 0 \/ rounds[Len(rounds)].settled >= Result
    /\ pc[r] = "draw" => rounds[seen[r]].state = "BETTING" /\ rounds[seen[r]].age >= Betting
    /\ pc[r] = "settle" => rounds[seen[r]].state = "DRAWING" /\ rounds[seen[r]].age >= Drawing
    /\ pc[r] = "drawing" => rounds[seen[r]].state # "BETTING"
    /\ pc[r] = "settled" => rounds[seen[r]].state = "SETTLED"

\* What the rows and the events are worth then.
RowsTrue ==
    /\ OneLiveRound
    /\ EventsTrue
    /\ \A n \in 1 .. Len(rounds) : rounds[n].state = "SETTLED" => rounds[n].settled # Null

Fresh == ~Stalls => RowsTrue /\ \A r \in Replicas : ReadTrue(r)

IInv == TypeOK /\ Leases /\ Held /\ Fresh

LEMMA LeastType == \A a, b \in Nat : Least(a, b) \in Nat /\ Least(a, b) <= a /\ Least(a, b) <= b
BY DEF Least

LEMMA AgedType ==
    ASSUME NEW rd \in Round
    PROVE  /\ Aged(rd) \in Round /\ Aged(rd).state = rd.state
           /\ Aged(rd).settled >= rd.settled
           /\ rd.settled = Null <=> Aged(rd).settled = Null
           /\ rd.state = "BETTING" /\ rd.age >= Betting => Aged(rd).age >= Betting
           /\ rd.state = "DRAWING" /\ rd.age >= Drawing => Aged(rd).age >= Drawing
<1>. DEFINE a == CASE rd.state = "BETTING" -> Least(rd.age + 1, Betting)
                   [] rd.state = "DRAWING" -> Least(rd.age + 1, Drawing)
                   [] OTHER -> rd.age
            s == IF rd.settled = Null THEN rd.settled ELSE Least(rd.settled + 1, Result)
<1>1. rd.state \in {"BETTING", "DRAWING", "SETTLED"} /\ rd.age \in Nat
      /\ rd.settled \in Null .. Result
  BY DEF Round
<1>2. /\ a \in Nat
      /\ rd.state = "BETTING" /\ rd.age >= Betting => a >= Betting
      /\ rd.state = "DRAWING" /\ rd.age >= Drawing => a >= Drawing
  BY <1>1, RoundsAssumption DEF Least
<1>3. s \in Null .. Result /\ s >= rd.settled /\ (rd.settled = Null <=> s = Null)
  BY <1>1, RoundsAssumption DEF Null, Least
<1>4. Aged(rd) = [rd EXCEPT !.age = a, !.settled = s]
  BY DEF Aged
<1>. HIDE DEF a, s
<1>5. Aged(rd) = [state |-> rd.state, age |-> a, settled |-> s]
  BY <1>4 DEF Round
<1>. QED
  BY <1>1, <1>2, <1>3, <1>5 DEF Round

LEMMA TickRounds ==
    ASSUME TypeOK, Tick
    PROVE  /\ rounds' \in Seq(Round) /\ Len(rounds') = Len(rounds)
           /\ \A n \in 1 .. Len(rounds) : /\ rounds'[n] = Aged(rounds[n])
                                          /\ rounds'[n].state = rounds[n].state
                                          /\ rounds[n] \in Round
<1>1. \A n \in 1 .. Len(rounds) : rounds[n] \in Round /\ Aged(rounds[n]) \in Round
  BY AgedType DEF TypeOK, RowsOK
<1>2. Len(rounds) \in Nat
  BY DEF TypeOK, RowsOK
<1>. QED
  BY <1>1, <1>2, AgedType DEF Tick

LEMMA TypeInit == Init => TypeOK
BY RoundsAssumption DEF Init, TypeOK, RowsOK, ReplicasOK, InRange

\* The round a replica carries is a number.
LEMMA StepSeen ==
    ASSUME TypeOK, NEW r \in Replicas, Step(r) \/ Throw(r) \/ Crash(r)
    PROVE  seen' \in [Replicas -> Nat]
<1>1. Len(rounds) \in Nat /\ seen \in [Replicas -> Nat]
  BY DEF TypeOK, RowsOK, ReplicasOK
<1>2. \/ seen' = seen
      \/ \E n \in Nat : seen' = [seen EXCEPT ![r] = n]
  <2>1. \A n \in Live : n \in Nat
    BY <1>1 DEF Live
  <2>. QED
    BY <1>1, <2>1 DEF Carry, Step, Acquire, FindNoRound, FindBetting, FindDrawing, ReadPrevious,
       CreateRound, BeginDrawing, SettleRound, Announce, Release, Throw, Crash
<1>. QED
  BY <1>1, <1>2

\* One step of one replica, on the rows and on its own program counter.
LEMMA StepRows ==
    ASSUME TypeOK, NEW r \in Replicas, Step(r) \/ Throw(r) \/ Crash(r)
    PROVE  /\ RowsOK' /\ Len(rounds') >= Len(rounds) /\ Len(rounds') \in Nat
           /\ InRange(r)'
           /\ \A s \in Replicas \ {r} : pc'[s] = pc[s] /\ seen'[s] = seen[s]
<1>. USE DEF Go, Carry
<1>1. RowsOK /\ Len(rounds) \in Nat /\ InRange(r) /\ seen[r] \in Nat /\ ReplicasOK
  BY DEF TypeOK, RowsOK, ReplicasOK, InRange
<1>2. \A s \in Replicas \ {r} : pc'[s] = pc[s] /\ seen'[s] = seen[s]
  BY <1>1 DEF Step, Acquire, FindNoRound, FindBetting, FindDrawing, ReadPrevious, CreateRound,
     BeginDrawing, SettleRound, Announce, Release, Throw, Crash, ReplicasOK
<1>3. CASE Acquire(r) \/ FindNoRound(r) \/ Release(r) \/ Throw(r) \/ Crash(r)
  BY <1>1, <1>2, <1>3 DEF Acquire, FindNoRound, Release, Throw, Crash, InRange, ReplicasOK,
     RowsOK
<1>4. CASE FindBetting(r) \/ FindDrawing(r)
  <2>1. PICK n \in Live : seen' = [seen EXCEPT ![r] = n]
    BY <1>4 DEF FindBetting, FindDrawing
  <2>2. n \in 1 .. Len(rounds)
    BY DEF Live
  <2>3. UNCHANGED <<rounds, said>>
    BY <1>4 DEF FindBetting, FindDrawing
  <2>. QED
    BY <1>1, <1>2, <2>1, <2>2, <2>3 DEF InRange, ReplicasOK, RowsOK
<1>5. CASE ReadPrevious(r)
  BY <1>1, <1>2, <1>5 DEF ReadPrevious, InRange, ReplicasOK, RowsOK
<1>6. CASE CreateRound(r)
  <2>. DEFINE row == [state |-> "BETTING", age |-> 0, settled |-> Null]
  <2>0. pc[r] = "create" /\ seen[r] \in 1 .. Len(rounds) + 1 /\ seen' = seen
    BY <1>1, <1>6 DEF CreateRound, InRange
  <2>1. CASE seen[r] <= Len(rounds)
    BY <1>1, <1>2, <1>6, <2>1 DEF CreateRound, InRange, ReplicasOK, RowsOK
  <2>2. CASE ~(seen[r] <= Len(rounds))
    <3>1. row \in Round
      BY RoundsAssumption DEF Round, Null
    <3>2. rounds' = Append(rounds, row) /\ said' = Append(said, "nothing")
          /\ pc' = [pc EXCEPT ![r] = "opened"]
      BY <1>6, <2>2 DEF CreateRound
    <3>. HIDE DEF row
    <3>3. rounds' \in Seq(Round) /\ Len(rounds') = Len(rounds) + 1
      BY <1>1, <3>1, <3>2 DEF RowsOK
    <3>4. said' \in Seq({"nothing", "opened", "drawing", "settled"})
          /\ Len(said') = Len(said) + 1
      BY <1>1, <3>2 DEF RowsOK
    <3>5. pc'[r] = "opened"
      BY <3>2, <1>1 DEF ReplicasOK
    <3>. QED
      BY <1>1, <1>2, <2>0, <2>2, <3>3, <3>4, <3>5 DEF RowsOK, InRange
  <2>. QED
    BY <2>1, <2>2
<1>7. CASE BeginDrawing(r)
  <2>1. seen[r] \in 1 .. Len(rounds) /\ seen' = seen /\ said' = said
        /\ pc' = [pc EXCEPT ![r] = "drawing"]
    BY <1>1, <1>7 DEF BeginDrawing, InRange
  <2>2. rounds' \in Seq(Round) /\ Len(rounds') = Len(rounds)
    <3>. DEFINE row == [state |-> "DRAWING", age |-> 0, settled |-> rounds[seen[r]].settled]
    <3>0. rounds[seen[r]] \in Round
      BY <1>1, <2>1 DEF RowsOK
    <3>1. row \in Round
      BY <3>0, RoundsAssumption DEF Round, Null
    <3>2. rounds' = [rounds EXCEPT ![seen[r]] = row]
      BY <1>1, <1>7, <2>1 DEF BeginDrawing, RowsOK
    <3>. QED
      BY <1>1, <2>1, <3>1, <3>2, ExceptSeq DEF RowsOK
  <2>. QED
    BY <1>1, <1>2, <2>1, <2>2 DEF RowsOK, InRange, ReplicasOK
<1>8. CASE SettleRound(r)
  <2>1. seen[r] \in 1 .. Len(rounds) /\ seen' = seen /\ said' = said
        /\ \E w \in {"release", "settled"} : pc' = [pc EXCEPT ![r] = w]
    BY <1>1, <1>8 DEF SettleRound, InRange
  <2>2. rounds' \in Seq(Round) /\ Len(rounds') = Len(rounds)
    <3>. DEFINE row == [state |-> "SETTLED", age |-> 0, settled |-> 0]
    <3>1. row \in Round
      BY RoundsAssumption DEF Round, Null
    <3>2. rounds' = [rounds EXCEPT ![seen[r]] = row] \/ rounds' = rounds
      BY <1>8 DEF SettleRound
    <3>. QED
      BY <1>1, <2>1, <3>1, <3>2, ExceptSeq DEF RowsOK
  <2>. QED
    BY <1>1, <1>2, <2>1, <2>2 DEF RowsOK, InRange, ReplicasOK
<1>9. CASE Announce(r)
  <2>1. seen[r] \in 1 .. Len(rounds) /\ seen' = seen /\ rounds' = rounds
        /\ pc' = [pc EXCEPT ![r] = "release"]
        /\ pc[r] \in {"nothing", "opened", "drawing", "settled"}
        /\ said' = [said EXCEPT ![seen[r]] = pc[r]]
    BY <1>1, <1>9 DEF Announce, InRange
  <2>2. said' \in Seq({"nothing", "opened", "drawing", "settled"}) /\ Len(said') = Len(said)
    BY <1>1, <2>1, ExceptSeq DEF RowsOK
  <2>. QED
    BY <1>1, <1>2, <2>1, <2>2 DEF RowsOK, InRange, ReplicasOK
<1>. QED
  BY <1>3, <1>4, <1>5, <1>6, <1>7, <1>8, <1>9 DEF Step

LEMMA TypeStep == TypeOK /\ [Next]_vars => TypeOK'
<1>. SUFFICES ASSUME TypeOK, [Next]_vars PROVE TypeOK'
  OBVIOUS
<1>1. CASE Tick
  <2>1. RowsOK'
    BY <1>1, TickRounds DEF Tick, RowsOK, TypeOK
  <2>2. ReplicasOK'
    BY <1>1, RoundsAssumption DEF Tick, ReplicasOK, TypeOK
  <2>3. \A r \in Replicas : InRange(r)'
    BY <1>1, TickRounds DEF Tick, InRange, TypeOK
  <2>. QED
    BY <2>1, <2>2, <2>3 DEF TypeOK
<1>2. ASSUME NEW r \in Replicas, Step(r) \/ Throw(r) \/ Crash(r) PROVE TypeOK'
  <2>1. RowsOK'
    BY <1>2, StepRows
  <2>2. ASSUME NEW s \in Replicas PROVE InRange(s)'
    <3>1. CASE s = r
      BY <1>2, <3>1, StepRows
    <3>2. CASE s # r
      <4>1. pc'[s] = pc[s] /\ seen'[s] = seen[s] /\ Len(rounds') >= Len(rounds)
            /\ Len(rounds') \in Nat /\ Len(rounds) \in Nat /\ seen[s] \in Nat /\ InRange(s)
        BY <1>2, <3>2, StepRows DEF TypeOK, RowsOK, ReplicasOK
      <4>. QED
        BY <4>1 DEF InRange
    <3>. QED
      BY <3>1, <3>2
  <2>3. ReplicasOK'
    <3>1. seen' \in [Replicas -> Nat]
      BY <1>2, StepSeen DEF TypeOK
    <3>2. /\ owner' \in Replicas \cup {None, Gone}
          /\ ttl' \in 0 .. LockTtl
          /\ lease' \in [Replicas -> 0 .. LockTtl]
          /\ faults' \in 0 .. MaxFaults
      <4>0. /\ owner \in Replicas \cup {None, Gone} /\ ttl \in 0 .. LockTtl
            /\ lease \in [Replicas -> 0 .. LockTtl] /\ faults \in 0 .. MaxFaults
            /\ LockTtl \in Nat \ {0} /\ MaxFaults \in Nat
        BY RoundsAssumption DEF TypeOK, ReplicasOK
      <4>1. CASE Acquire(r)
        BY <4>0, <4>1 DEF Acquire
      <4>2. CASE Release(r)
        BY <4>0, <4>2 DEF Release
      <4>3. CASE Throw(r)
        BY <4>0, <4>3 DEF Throw
      <4>4. CASE Crash(r)
        BY <4>0, <4>4 DEF Crash
      <4>5. CASE UNCHANGED <<owner, ttl, lease, faults>>
        BY <4>0, <4>5
      <4>. QED
        BY <1>2, <4>1, <4>2, <4>3, <4>4, <4>5 DEF Step, FindNoRound,
           FindBetting, FindDrawing, ReadPrevious, CreateRound, BeginDrawing, SettleRound,
           Announce
    <3>3. pc' \in [Replicas -> {"idle", "look", "previous", "create", "draw", "settle",
                                "opened", "drawing", "settled", "release"}]
      BY <1>2 DEF TypeOK, ReplicasOK, Go, Step, Acquire, FindNoRound, FindBetting, FindDrawing,
         ReadPrevious, CreateRound, BeginDrawing, SettleRound, Announce, Release, Throw, Crash
    <3>. QED
      BY <3>1, <3>2, <3>3 DEF ReplicasOK
  <2>. QED
    BY <2>1, <2>2, <2>3 DEF TypeOK
<1>3. CASE UNCHANGED vars
  BY <1>3 DEF vars, TypeOK, RowsOK, ReplicasOK, InRange
<1>. QED
  BY <1>1, <1>2, <1>3 DEF Next

-----------------------------------------------------------------------------
\* A lease is worth exactly the lock that is left, whoever stalls.
LEMMA LeaseStep ==
    ASSUME TypeOK, Leases, Held, [Next]_vars
    PROVE  Leases' /\ Held'
<1>. USE DEF Leases, Held, Busy
<1>0. ReplicasOK /\ LockTtl \in Nat \ {0} /\ None \notin Replicas /\ Gone \notin Replicas
  BY RoundsAssumption DEF TypeOK
<1>1. CASE Tick
  BY <1>0, <1>1 DEF Tick, ReplicasOK
<1>2. ASSUME NEW r \in Replicas, Acquire(r) PROVE Leases' /\ Held'
  BY <1>0, <1>2 DEF Acquire, Go, ReplicasOK
<1>3. ASSUME NEW r \in Replicas, Release(r) PROVE Leases' /\ Held'
  BY <1>0, <1>3 DEF Release, Go, ReplicasOK
<1>4. ASSUME NEW r \in Replicas, Crash(r) PROVE Leases' /\ Held'
  BY <1>0, <1>4 DEF Crash, Go, ReplicasOK
<1>5. ASSUME NEW r \in Replicas, UNCHANGED <<owner, ttl, lease>>, Busy(r), NEW w, Go(r, w)
      PROVE  Leases' /\ Held'
  BY <1>0, <1>5 DEF Go, ReplicasOK
<1>6. ASSUME NEW r \in Replicas, Step(r) \/ Throw(r) PROVE Leases' /\ Held'
  <2>1. \/ Acquire(r) \/ Release(r)
        \/ UNCHANGED <<owner, ttl, lease>> /\ Busy(r) /\ \E w : Go(r, w)
    BY <1>6 DEF Step, FindNoRound, FindBetting, FindDrawing, ReadPrevious, CreateRound,
       BeginDrawing, SettleRound, Announce, Throw
  <2>. QED
    BY <2>1, <1>2, <1>3, <1>5
<1>7. CASE UNCHANGED vars
  BY <1>7 DEF vars
<1>. QED
  BY <1>1, <1>4, <1>6, <1>7 DEF Next

LEMMA Alone ==
    ASSUME TypeOK, Leases, Held, ~Stalls
    PROVE  /\ OneReplicaActs
           /\ \A r, s \in Replicas : Busy(r) \/ owner = None => s = r \/ ~Busy(s)
BY RoundsAssumption DEF Leases, Held, OneReplicaActs

-----------------------------------------------------------------------------
LEMMA FreshTick ==
    ASSUME TypeOK, ~Stalls, Fresh, Tick
    PROVE  Fresh' /\ PhaseStep /\ SettledStep
<1>1. /\ Len(rounds) \in Nat /\ Len(rounds') = Len(rounds)
      /\ UNCHANGED <<said, pc, seen>>
      /\ \A r \in Replicas : InRange(r)
  BY TickRounds DEF TypeOK, RowsOK, Tick
<1>2. \A n \in 1 .. Len(rounds) :
         /\ rounds'[n].state = rounds[n].state
         /\ rounds'[n].settled >= rounds[n].settled
         /\ rounds'[n].settled \in Null .. Result
         /\ rounds[n].settled \in Null .. Result
         /\ rounds[n].age \in Nat /\ rounds'[n].age \in Nat
         /\ rounds[n].settled = Null <=> rounds'[n].settled = Null
         /\ rounds[n].state = "BETTING" /\ rounds[n].age >= Betting => rounds'[n].age >= Betting
         /\ rounds[n].state = "DRAWING" /\ rounds[n].age >= Drawing => rounds'[n].age >= Drawing
  <2>. TAKE n \in 1 .. Len(rounds)
  <2>1. rounds[n] \in Round /\ rounds'[n] = Aged(rounds[n]) /\ Aged(rounds[n]) \in Round
    BY TickRounds, AgedType
  <2>2. \A rd \in Round : rd.settled \in Null .. Result /\ rd.age \in Nat
    BY DEF Round
  <2>. QED
    BY <2>1, <2>2, AgedType
<1>3. Live' = Live
  BY <1>1, <1>2 DEF Live
<1>4. RowsTrue'
  BY <1>1, <1>2, <1>3 DEF Fresh, RowsTrue, OneLiveRound, EventsTrue
<1>5. ASSUME NEW r \in Replicas PROVE ReadTrue(r)'
  <2>. /\ ReadTrue(r) /\ InRange(r) /\ pc'[r] = pc[r] /\ seen'[r] = seen[r]
    BY <1>1 DEF Fresh
  <2>1. pc[r] = "create" => /\ Live' = {}
                            /\ seen'[r] = Len(rounds') + 1
                            /\ Len(rounds') = 0 \/ rounds'[Len(rounds')].settled >= Result
    BY <1>1, <1>2, <1>3, RoundsAssumption DEF ReadTrue, Null
  <2>. QED
    BY <1>1, <1>2, <1>3, <2>1 DEF ReadTrue, InRange
<1>6. PhaseStep /\ SettledStep
  BY <1>1, <1>2 DEF PhaseStep, BettingStep, SettledStep
<1>. QED
  BY <1>4, <1>5, <1>6 DEF Fresh

\* A step of one replica while the others are idle.
LEMMA FreshStep ==
    ASSUME TypeOK, Leases, Held, ~Stalls, Fresh,
           NEW r \in Replicas, Step(r) \/ Throw(r) \/ Crash(r)
    PROVE  Fresh' /\ PhaseStep /\ SettledStep
<1>. USE DEF Go, Carry
<1>1. /\ Len(rounds) \in Nat /\ Len(said) = Len(rounds) /\ InRange(r)
      /\ ReadTrue(r) /\ RowsTrue /\ ReplicasOK
      /\ Result \in Nat \ {0} /\ Betting \in Nat /\ Drawing \in Nat
  BY RoundsAssumption DEF TypeOK, RowsOK, Fresh
<1>2. \A n \in 1 .. Len(rounds) :
         /\ rounds[n].state \in {"BETTING", "DRAWING", "SETTLED"}
         /\ rounds[n].age \in Nat /\ rounds[n].settled \in Null .. Result
  <2>1. \A n \in 1 .. Len(rounds) : rounds[n] \in Round
    BY DEF TypeOK, RowsOK
  <2>. QED
    BY <2>1 DEF Round
<1>3. \A s \in Replicas \ {r} : ReadTrue(s)'
  <2>1. \A s \in Replicas \ {r} : ~Busy(s)
    BY Alone DEF Busy, Step, Acquire, FindNoRound, FindBetting, FindDrawing, ReadPrevious,
       CreateRound, BeginDrawing, SettleRound, Announce, Release, Throw, Crash
  <2>2. \A s \in Replicas \ {r} : pc'[s] = "idle"
    BY <2>1, StepRows DEF Busy
  <2>. QED
    BY <2>2 DEF ReadTrue
<1>. SUFFICES RowsTrue' /\ ReadTrue(r)' /\ PhaseStep /\ SettledStep
  BY <1>3 DEF Fresh
<1>4. ASSUME UNCHANGED <<rounds, said>> PROVE RowsTrue' /\ PhaseStep /\ SettledStep
  BY <1>1, <1>2, <1>4 DEF RowsTrue, OneLiveRound, Live, EventsTrue, PhaseStep, BettingStep,
     SettledStep, Null
<1>5. CASE Acquire(r) \/ Release(r) \/ Throw(r) \/ Crash(r)
  <2>1. pc'[r] \in {"idle", "look", "release"} /\ UNCHANGED <<rounds, said>>
    BY <1>1, <1>5 DEF Acquire, Release, Throw, Crash, ReplicasOK
  <2>. QED
    BY <2>1, <1>4 DEF ReadTrue
<1>6. CASE FindNoRound(r)
  BY <1>1, <1>4, <1>6 DEF FindNoRound, ReadTrue, Live, ReplicasOK
<1>7. CASE FindBetting(r) \/ FindDrawing(r)
  <2>1. PICK n \in Live : /\ UNCHANGED <<rounds, said>>
                          /\ seen' = [seen EXCEPT ![r] = n]
                          /\ \/ pc'[r] = "release"
                             \/ pc'[r] = "draw" /\ rounds[n].state = "BETTING"
                                /\ rounds[n].age >= Betting
                             \/ pc'[r] = "settle" /\ rounds[n].state = "DRAWING"
                                /\ rounds[n].age >= Drawing
    BY <1>1, <1>7 DEF FindBetting, FindDrawing, ReplicasOK
  <2>2. seen'[r] = n
    BY <1>1, <2>1 DEF ReplicasOK
  <2>. QED
    BY <1>4, <2>1, <2>2 DEF ReadTrue
<1>8. CASE ReadPrevious(r)
  <2>0. /\ UNCHANGED <<rounds, said>> /\ Live = {}
        /\ seen' = [seen EXCEPT ![r] = Len(rounds) + 1]
        /\ \/ pc' = [pc EXCEPT ![r] = "release"]
           \/ pc' = [pc EXCEPT ![r] = "create"] /\ ResultShown(Len(rounds))
    BY <1>1, <1>8 DEF ReadPrevious, ReadTrue
  <2>1. /\ UNCHANGED <<rounds, said>> /\ Live = {} /\ seen'[r] = Len(rounds) + 1
        /\ pc'[r] = "release" \/ (pc'[r] = "create" /\ ResultShown(Len(rounds)))
    BY <1>1, <2>0 DEF ReplicasOK
  <2>2. Len(rounds) = 0 \/ rounds[Len(rounds)].settled # Null
    <3>1. ASSUME Len(rounds) # 0 PROVE rounds[Len(rounds)].state = "SETTLED"
      BY <1>1, <2>1, <3>1 DEF Live
    <3>. QED
      BY <1>1, <3>1 DEF RowsTrue
  <2>3. Live' = Live
    BY <2>1 DEF Live
  <2>. QED
    BY <1>4, <2>1, <2>2, <2>3 DEF ReadTrue, ResultShown
<1>9. CASE CreateRound(r)
  <2>. DEFINE N == Len(rounds)
              row == [state |-> "BETTING", age |-> 0, settled |-> Null]
  <2>1. /\ Live = {} /\ seen[r] = N + 1 /\ (N = 0 \/ rounds[N].settled >= Result)
        /\ rounds' = Append(rounds, row)
        /\ said' = Append(said, "nothing")
        /\ pc' = [pc EXCEPT ![r] = "opened"]
    BY <1>1, <1>9 DEF CreateRound, ReadTrue
  <2>2. /\ Len(rounds') = N + 1 /\ Len(said') = N + 1
        /\ \A n \in 1 .. N : rounds'[n] = rounds[n] /\ said'[n] = said[n]
        /\ rounds'[N + 1] = row /\ said'[N + 1] = "nothing"
    BY <1>1, <2>1 DEF TypeOK, RowsOK
  <2>3. \A n \in 1 .. N : rounds[n].state = "SETTLED"
    BY <2>1 DEF Live
  <2>4. Live' \subseteq {N + 1}
    BY <1>1, <2>2, <2>3 DEF Live
  <2>5. RowsTrue'
    <3>1. \A n \in 1 .. Len(rounds') : n \in 1 .. N \/ n = N + 1
      BY <1>1, <2>2
    <3>2. EventsTrue'
      BY <1>1, <2>2, <3>1 DEF RowsTrue, EventsTrue
    <3>3. (\A n \in 1 .. Len(rounds) : rounds[n].state = "SETTLED" => rounds[n].settled # Null)'
      BY <1>1, <2>2, <3>1 DEF RowsTrue
    <3>. QED
      BY <2>2, <2>4, <3>2, <3>3 DEF RowsTrue, OneLiveRound
  <2>6. PhaseStep /\ SettledStep
    BY <1>1, <1>2, <2>1, <2>2 DEF PhaseStep, BettingStep, SettledStep, Null
  <2>7. pc'[r] = "opened"
    BY <1>1, <2>1 DEF ReplicasOK
  <2>. QED
    BY <2>5, <2>6, <2>7 DEF ReadTrue
<1>10. CASE BeginDrawing(r) \/ SettleRound(r)
  <2>. DEFINE i == seen[r]
  <2>1. i \in 1 .. Len(rounds) /\ UNCHANGED <<said, seen>>
    BY <1>1, <1>10 DEF BeginDrawing, SettleRound, InRange
  <2>2. PICK row : /\ rounds' = [rounds EXCEPT ![i] = row]
                   /\ \/ /\ pc'[r] = "drawing" /\ row.state = "DRAWING"
                         /\ row.settled = rounds[i].settled
                         /\ rounds[i].state = "BETTING" /\ rounds[i].age >= Betting
                      \/ /\ pc'[r] = "settled" /\ row.state = "SETTLED" /\ row.settled = 0
                         /\ rounds[i].state = "DRAWING" /\ rounds[i].age >= Drawing
    <3>1. CASE BeginDrawing(r)
      <4>. DEFINE row == [state |-> "DRAWING", age |-> 0, settled |-> rounds[i].settled]
      <4>1. rounds' = [rounds EXCEPT ![i] = row]
        BY <2>1, <3>1 DEF BeginDrawing
      <4>2. pc'[r] = "drawing" /\ rounds[i].state = "BETTING" /\ rounds[i].age >= Betting
        BY <1>1, <3>1 DEF BeginDrawing, ReadTrue, ReplicasOK
      <4>3. row.state = "DRAWING" /\ row.settled = rounds[i].settled
        OBVIOUS
      <4>. HIDE DEF row
      <4>. QED
        BY <4>1, <4>2, <4>3
    <3>2. CASE SettleRound(r)
      <4>1. rounds[i].state = "DRAWING" /\ rounds[i].age >= Drawing
        BY <1>1, <3>2 DEF SettleRound, ReadTrue
      <4>. DEFINE row == [state |-> "SETTLED", age |-> 0, settled |-> 0]
      <4>2. rounds' = [rounds EXCEPT ![i] = row] /\ pc'[r] = "settled"
        BY <1>1, <3>2, <4>1 DEF SettleRound, ReplicasOK
      <4>3. row.state = "SETTLED" /\ row.settled = 0
        OBVIOUS
      <4>. HIDE DEF row
      <4>. QED
        BY <4>1, <4>2, <4>3
    <3>. QED
      BY <1>10, <3>1, <3>2
  <2>3. /\ Len(rounds') = Len(rounds) /\ rounds'[i] = row
        /\ \A n \in 1 .. Len(rounds) : n # i => rounds'[n] = rounds[n]
    BY <2>1, <2>2 DEF TypeOK, RowsOK
  <2>4. Live' \subseteq Live
    BY <2>1, <2>2, <2>3 DEF Live
  <2>5. EventsTrue'
    BY <1>1, <2>1, <2>2, <2>3 DEF RowsTrue, EventsTrue
  <2>6. (\A n \in 1 .. Len(rounds) : rounds[n].state = "SETTLED" => rounds[n].settled # Null)'
    BY <1>1, <2>1, <2>2, <2>3 DEF RowsTrue, Null
  <2>7. RowsTrue'
    BY <1>1, <2>3, <2>4, <2>5, <2>6 DEF RowsTrue, OneLiveRound
  <2>8. PhaseStep /\ SettledStep
    BY <1>1, <1>2, <2>1, <2>2, <2>3 DEF PhaseStep, BettingStep, SettledStep, Null
  <2>. QED
    BY <2>1, <2>2, <2>3, <2>7, <2>8 DEF ReadTrue
<1>11. CASE Announce(r)
  <2>1. /\ seen[r] \in 1 .. Len(rounds) /\ rounds' = rounds /\ pc'[r] = "release"
        /\ said' = [said EXCEPT ![seen[r]] = pc[r]]
        /\ pc[r] = "drawing" => rounds[seen[r]].state # "BETTING"
        /\ pc[r] = "settled" => rounds[seen[r]].state = "SETTLED"
    BY <1>1, <1>11 DEF Announce, InRange, ReadTrue, ReplicasOK
  <2>2. /\ said'[seen[r]] = pc[r]
        /\ \A n \in 1 .. Len(rounds) : n # seen[r] => said'[n] = said[n]
    BY <1>1, <2>1 DEF TypeOK, RowsOK
  <2>3. EventsTrue'
    BY <1>1, <2>1, <2>2 DEF RowsTrue, EventsTrue
  <2>4. RowsTrue' /\ PhaseStep /\ SettledStep
    BY <1>1, <1>2, <2>1, <2>3 DEF RowsTrue, OneLiveRound, Live, PhaseStep, BettingStep,
       SettledStep, Null
  <2>. QED
    BY <2>1, <2>4 DEF ReadTrue
<1>. QED
  BY <1>5, <1>6, <1>7, <1>8, <1>9, <1>10, <1>11 DEF Step

LEMMA InvInit == Init => IInv
BY TypeInit DEF Init, IInv, Leases, Held, Fresh, Busy, RowsTrue, OneLiveRound, EventsTrue, Live,
   ReadTrue

LEMMA InvStep == IInv /\ [Next]_vars => IInv' /\ (~Stalls => [PhaseStep /\ SettledStep]_vars)
<1>. SUFFICES ASSUME IInv, [Next]_vars
              PROVE  IInv' /\ (~Stalls => [PhaseStep /\ SettledStep]_vars)
  OBVIOUS
<1>1. TypeOK' /\ Leases' /\ Held'
  BY TypeStep, LeaseStep DEF IInv
<1>2. CASE Stalls
  BY <1>1, <1>2 DEF IInv, Fresh
<1>3. CASE UNCHANGED vars
  BY <1>1, <1>3 DEF IInv, Fresh, vars, RowsTrue, OneLiveRound, EventsTrue, Live, ReadTrue
<1>4. CASE ~Stalls /\ Next
  BY <1>1, <1>4, FreshTick, FreshStep DEF IInv, Next
<1>. QED
  BY <1>2, <1>3, <1>4

-----------------------------------------------------------------------------
\* Every variable keeps its type, and every write names a round that exists.
THEOREM TypeCorrect == Spec => []TypeOK
BY TypeInit, TypeStep, PTL DEF Spec

THEOREM Invariant == Spec => []IInv
BY InvInit, InvStep, PTL DEF Spec

\* A lock is lost only to its TTL, whatever stalls and crashes (releaseLock
\* compares the token before it deletes).
THEOREM LocksAreOwned == Spec => []LeaseOwned
<1>1. IInv => LeaseOwned
  BY DEF IInv, Leases, LeaseOwned
<1>. QED
  BY <1>1, Invariant, PTL

\* While no replica outlives its lock, one replica at a time advances the room.
THEOREM OneReplicaAdvances == ASSUME ~Stalls PROVE Spec => []OneReplicaActs
<1>1. IInv => OneReplicaActs
  BY Alone DEF IInv
<1>. QED
  BY <1>1, Invariant, PTL

\* And then at most one round is open: no replica opens another next to it.
THEOREM RoundsDoNotOverlap == ASSUME ~Stalls PROVE Spec => []OneLiveRound
<1>1. IInv => OneLiveRound
  BY DEF IInv, Fresh, RowsTrue
<1>. QED
  BY <1>1, Invariant, PTL

\* And no event runs ahead of its row, whatever publish calls fail.
THEOREM EventsFollowRows == ASSUME ~Stalls PROVE Spec => []EventsTrue
<1>1. IInv => EventsTrue
  BY DEF IInv, Fresh, RowsTrue
<1>. QED
  BY <1>1, Invariant, PTL

\* And every phase lasts as long as configured.
THEOREM PhasesRunTheirTime == ASSUME ~Stalls PROVE Spec => PhasesLast
<1>1. IInv /\ [Next]_vars => [PhaseStep]_vars
  BY InvStep
<1>. QED
  BY <1>1, Invariant, PTL DEF Spec, PhasesLast

\* And a settled round stays as it is: no replica draws or settles it again.
THEOREM SettledRoundsStaySo == ASSUME ~Stalls PROVE Spec => SettledIsFinal
<1>1. IInv /\ [Next]_vars => [SettledStep]_vars
  BY InvStep
<1>. QED
  BY <1>1, Invariant, PTL DEF Spec, SettledIsFinal
=============================================================================
