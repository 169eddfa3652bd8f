-------------------------------- MODULE Rooms --------------------------------
(***************************************************************************)
(* The players of one room: GameService.createRoom, joinRoom and leaveRoom *)
(* on the Redis set of presence, its one TTL and the join mutex.  One      *)
(* action is one Redis command; the room's row is created open and is not  *)
(* changed by the API.  Invite codes and passwords only refuse.            *)
(***************************************************************************)
EXTENDS Integers, FiniteSets

CONSTANTS Procs,      \* calls that can be open at the same time
          Users,
          Host,       \* the user who creates the room
          MaxPlayers, \* game_rooms.maxPlayers
          TTL,        \* PRESENCE_TTL_SECONDS, in units of time
          MaxCalls,   \* bound: calls
          MaxFaults,  \* bound: calls that die between two commands
          None        \* no call

RoomsAssumption ==
    /\ Host \in Users /\ None \notin Procs
    /\ MaxPlayers \in Nat \ {0} /\ TTL \in Nat \ {0}
    /\ MaxCalls \in Nat /\ MaxFaults \in Nat

VARIABLES
    open,    \* whether the room exists
    present, \* the presence set
    ttl,     \* units of time it has left, 0 without a TTL
    lock,    \* the call that holds the join mutex
    pc, user, count, \* of each call
    age,     \* ghost: units of time since each user was last refreshed, up to TTL + 1
    alone,   \* ghost: no join has begun before the host was in, or outlived its mutex
    calls, faults

vars == <<open, present, ttl, lock, pc, user, count, age, alone, calls, faults>>

Go(p, where) == pc' = [pc EXCEPT ![p] = where]
End(p) ==
    /\ Go(p, "idle")
    /\ user' = [user EXCEPT ![p] = Host] /\ count' = [count EXCEPT ![p] = 0]
\* The call is between its mutex and its release.
Joining(p) == pc[p] \in {"count", "decide", "add", "ttl", "release"}
Call(p, u, where) ==
    /\ pc[p] = "idle" /\ calls < MaxCalls
    /\ calls' = calls + 1
    /\ user' = [user EXCEPT ![p] = u]
    /\ Go(p, where)
    /\ UNCHANGED count

-----------------------------------------------------------------------------
Init ==
    /\ open = FALSE /\ present = {} /\ ttl = 0 /\ lock = None
    /\ pc = [p \in Procs |-> "idle"] /\ user = [p \in Procs |-> Host]
    /\ count = [p \in Procs |-> 0]
    /\ age = [u \in Users |-> TTL + 1]
    /\ alone = TRUE /\ calls = 0 /\ faults = 0

\* The row, then the host's presence.
CreateRoom(p) ==
    /\ ~open /\ open' = TRUE
    /\ Call(p, Host, "host")
    /\ UNCHANGED <<present, ttl, lock, age, alone, faults>>

\* A join that finds the mutex taken is refused.
Acquire(p, u) ==
    /\ open /\ lock = None
    /\ lock' = p
    /\ Call(p, u, "count")
    /\ alone' = (alone /\ \A q \in Procs : pc[q] # "host")
    /\ UNCHANGED <<open, present, ttl, age, faults>>

GetOccupancy(p) ==
    /\ pc[p] = "count"
    /\ count' = [count EXCEPT ![p] = Cardinality(present)]
    /\ Go(p, "decide")
    /\ UNCHANGED <<open, present, ttl, lock, user, age, alone, calls, faults>>

\* fault: a room with one player too many is full.
DecideLate(p) ==
    /\ pc[p] = "decide"
    /\ Go(p, IF user[p] \notin present /\ count[p] > MaxPlayers THEN "release" ELSE "add")
    /\ UNCHANGED <<open, present, ttl, lock, user, count, age, alone, calls, faults>>

Decide(p) ==
    /\ pc[p] = "decide"
    /\ Go(p, IF user[p] \notin present /\ count[p] >= MaxPlayers THEN "release" ELSE "add")
    /\ UNCHANGED <<open, present, ttl, lock, user, count, age, alone, calls, faults>>

AddPresence(p) ==
    /\ pc[p] \in {"add", "host"}
    /\ present' = present \cup {user[p]}
    /\ Go(p, IF pc[p] = "host" THEN "host-ttl" ELSE "ttl")
    /\ UNCHANGED <<open, ttl, lock, user, count, age, alone, calls, faults>>

\* EXPIRE, which does nothing if the set has gone.
Refresh(p) ==
    /\ pc[p] \in {"ttl", "host-ttl"}
    /\ ttl' = IF present = {} THEN 0 ELSE TTL
    /\ age' = IF present = {} THEN age ELSE [age EXCEPT ![user[p]] = 0]
    /\ IF pc[p] = "ttl" THEN Go(p, "release") /\ UNCHANGED <<user, count>> ELSE End(p)
    /\ UNCHANGED <<open, present, lock, alone, calls, faults>>

\* fault: DEL without comparing the token.
ReleaseAny(p) ==
    /\ pc[p] = "release"
    /\ lock' = None
    /\ End(p)
    /\ UNCHANGED <<open, present, ttl, age, alone, calls, faults>>

Release(p) ==
    /\ pc[p] = "release"
    /\ lock' = IF lock = p THEN None ELSE lock
    /\ End(p)
    /\ UNCHANGED <<open, present, ttl, age, alone, calls, faults>>

\* SREM; a set with no member is no key.
LeaveRoom(p, u) ==
    /\ open /\ pc[p] = "idle" /\ calls < MaxCalls
    /\ calls' = calls + 1
    /\ present' = present \ {u}
    /\ ttl' = IF present' = {} THEN 0 ELSE ttl
    /\ UNCHANGED <<open, lock, pc, user, count, age, alone, faults>>

\* Time passes; the set as a whole lapses with its TTL.
Tick ==
    /\ age' = [u \in Users |-> IF age[u] > TTL THEN age[u] ELSE age[u] + 1]
    /\ ttl' = IF ttl = 0 THEN 0 ELSE ttl - 1
    /\ present' = IF ttl = 1 THEN {} ELSE present
    /\ UNCHANGED <<open, lock, pc, user, count, alone, calls, faults>>

\* fault: SET without PX.
LockNever == FALSE

\* The mutex expires, under a call that died or under one that is slow.
LockLapses ==
    /\ lock # None
    /\ lock' = None
    /\ alone' = (alone /\ ~Joining(lock))
    /\ UNCHANGED <<open, present, ttl, pc, user, count, age, calls, faults>>

Die(p) ==
    /\ pc[p] # "idle" /\ faults < MaxFaults
    /\ faults' = faults + 1
    /\ End(p)
    /\ UNCHANGED <<open, present, ttl, lock, age, alone, calls>>

Step(p) == GetOccupancy(p) \/ Decide(p) \/ AddPresence(p) \/ Refresh(p) \/ Release(p)

Next ==
    \/ \E p \in Procs :
          \/ CreateRoom(p) \/ Step(p) \/ Die(p)
          \/ \E u \in Users : Acquire(p, u) \/ LeaveRoom(p, u)
    \/ Tick \/ LockLapses

Spec == Init /\ [][Next]_vars

\* A call goes on, time passes and a mutex that has run out is gone.
FairSpec ==
    /\ Spec /\ WF_vars(Tick) /\ WF_vars(LockLapses)
    /\ \A p \in Procs : WF_vars(Step(p))
-----------------------------------------------------------------------------
\* One join is between its mutex and its release, unless a mutex expired under one.
TypeOK ==
    /\ alone => \A p, q \in Procs : Joining(p) /\ Joining(q) => p = q
    /\ present \subseteq Users /\ (present # {} => open)
    /\ ttl \in 0 .. TTL /\ (present = {} => ttl = 0)
    /\ lock \in Procs \cup {None}
    /\ pc \in [Procs -> {"idle", "host", "host-ttl", "count", "decide", "add", "ttl", "release"}]
    /\ calls \in 0 .. MaxCalls /\ faults \in 0 .. MaxFaults

\* "Capacity is checked under a short Redis mutex so two simultaneous joins for the
\* last seat cannot both succeed." (game.service.ts 295-296)  They cannot as long as joins
\* end within their mutex and begin when the host is in.
CapacityKept == alone => Cardinality(present) <= MaxPlayers

\* A slow join, or the host, is seated over the capacity: this does not hold.
NeverOverfull == Cardinality(present) <= MaxPlayers

\* A join releases its own mutex and nobody else's, however late it is.
OwnLockOnly ==
    \A p, q \in Procs : Release(p) /\ lock = q /\ p # q => lock' = q

\* "entries lapse if not refreshed" (game.service.ts 61): when everybody has stopped
\* calling, the seats come free; and the entry of each user lapses on its own.
SeatsComeFree == <>[](present = {})
EntriesLapse ==
    \A u \in present :
        age[u] <= TTL \/ \E p \in Procs : user[p] = u /\ pc[p] \in {"ttl", "host-ttl"}

\* The mutex of a join that died does not close the room.
LockComesFree == lock # None ~> lock = None

\* A seat whose join was answered is kept, whoever joins and leaves: it is given up
\* by leaving, or when its TTL is over.
SeatKept ==
    \A u \in present \ present' :
        (\E p \in Procs : LeaveRoom(p, u)) \/ age[u] + 1 >= TTL
=============================================================================
