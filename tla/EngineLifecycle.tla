--------------------------- MODULE EngineLifecycle ---------------------------
(***************************************************************************)
(* The life of one game engine process: main, the scheduler's timer, its   *)
(* ticks over all rooms, and the shutdown that a signal starts.  What a    *)
(* tick does to a room is in Rounds; here a room has at most one open      *)
(* transaction, between its lock and the lock's release.                   *)
(***************************************************************************)
EXTENDS Naturals, FiniteSets

CONSTANTS Rooms,    \* with status OPEN
          Signals,  \* SIGTERM, SIGINT
          Early,    \* whether a signal may come before main has connected
          MaxFaults \* bound: Redis commands that fail

EngineLifecycleAssumption == Early \in BOOLEAN /\ MaxFaults \in Nat

VARIABLES
    connected, \* main has connected and started the scheduler
    timer,     \* the interval is set
    running,   \* the scheduler's flag
    work,      \* of each room: idle, locking, transacting, releasing
    awaited,   \* rooms that the current tick's Promise.all waits for
    shutdown,  \* of each signal: none, waiting for the tick, disconnecting
    exited, faults,
    loose      \* ghost: rooms still at work in a tick that has failed

vars == <<connected, timer, running, work, awaited, shutdown, exited, faults, loose>>

Init ==
    /\ connected = FALSE /\ timer = FALSE /\ running = FALSE
    /\ work = [r \in Rooms |-> "idle"] /\ awaited = {}
    /\ shutdown = [s \in Signals |-> "none"]
    /\ exited = FALSE /\ faults = 0 /\ loose = {}

\* $connect has answered.  main does not ask whether a signal came meanwhile.
Start ==
    /\ ~exited /\ ~connected
    /\ connected' = TRUE /\ timer' = TRUE
    /\ UNCHANGED <<running, work, awaited, shutdown, exited, faults, loose>>

\* A room that an earlier tick has not left is locked: its part returns at once.
Tick ==
    /\ ~exited /\ timer /\ ~running
    /\ running' = TRUE
    /\ awaited' = {r \in Rooms : work[r] = "idle"}
    /\ work' = [r \in Rooms |-> IF work[r] = "idle" THEN "locking" ELSE work[r]]
    /\ UNCHANGED <<connected, timer, shutdown, exited, faults, loose>>

Go(r, where) == work' = [work EXCEPT ![r] = where]

Leave(r) == Go(r, "idle") /\ awaited' = awaited \ {r} /\ loose' = loose \ {r}

\* SET NX, or not acquired.
Lock(r) ==
    /\ ~exited /\ work[r] = "locking"
    /\ \/ Go(r, "transacting") /\ UNCHANGED <<awaited, loose>>
       \/ Leave(r)
    /\ UNCHANGED <<connected, timer, running, shutdown, exited, faults>>

\* The transaction has ended; what it threw is caught.
Transact(r) ==
    /\ ~exited /\ work[r] = "transacting" /\ Go(r, "releasing")
    /\ UNCHANGED <<connected, timer, running, awaited, shutdown, exited, faults, loose>>

Release(r) ==
    /\ ~exited /\ work[r] = "releasing" /\ Leave(r)
    /\ UNCHANGED <<connected, timer, running, shutdown, exited, faults>>

\* SET, or the script that deletes the lock, is answered with an error: outside the
\* try block it rejects Promise.all, and the tick ends while its other rooms go on.
Reject(r) ==
    /\ ~exited /\ work[r] \in {"locking", "releasing"} /\ faults < MaxFaults
    /\ faults' = faults + 1 /\ Go(r, "idle")
    /\ IF r \in awaited
       THEN running' = FALSE /\ awaited' = {} /\ loose' = (loose \cup awaited) \ {r}
       ELSE UNCHANGED <<running, awaited>> /\ loose' = loose \ {r}
    /\ UNCHANGED <<connected, timer, shutdown, exited>>

TickEnds ==
    /\ ~exited /\ running /\ awaited = {} /\ running' = FALSE
    /\ UNCHANGED <<connected, timer, work, awaited, shutdown, exited, faults, loose>>

\* shutdown: stop clears the interval.
Stop(s) ==
    /\ ~exited /\ (Early \/ connected) /\ shutdown[s] = "none"
    /\ shutdown' = [shutdown EXCEPT ![s] = "waiting"] /\ timer' = FALSE
    /\ UNCHANGED <<connected, running, work, awaited, exited, faults, loose>>

\* It looks at the flag every 50 ms.
Stopped(s) ==
    /\ ~exited /\ shutdown[s] = "waiting" /\ ~running
    /\ shutdown' = [shutdown EXCEPT ![s] = "disconnecting"]
    /\ UNCHANGED <<connected, timer, running, work, awaited, exited, faults, loose>>

\* $disconnect has answered; process.exit.
Exit(s) ==
    /\ ~exited /\ shutdown[s] = "disconnecting" /\ exited' = TRUE
    /\ UNCHANGED <<connected, timer, running, work, awaited, shutdown, faults, loose>>

Step(r) == Lock(r) \/ Transact(r) \/ Release(r)
Shut(s) == Stopped(s) \/ Exit(s)

Next ==
    \/ Start \/ Tick \/ TickEnds
    \/ \E r \in Rooms : Step(r) \/ Reject(r)
    \/ \E s \in Signals : Stop(s) \/ Shut(s)

Spec == Init /\ [][Next]_vars

\* Redis and the database answer; the event loop goes on.
FairSpec ==
    /\ Spec /\ WF_vars(TickEnds)
    /\ \A r \in Rooms : WF_vars(Step(r))
    /\ \A s \in Signals : WF_vars(Shut(s))
-----------------------------------------------------------------------------
\* The variables keep their types; only a tick that failed leaves a room.
TypeOK ==
    /\ connected \in BOOLEAN /\ timer \in BOOLEAN /\ running \in BOOLEAN
    /\ work \in [Rooms -> {"idle", "locking", "transacting", "releasing"}]
    /\ awaited \subseteq Rooms
    /\ shutdown \in [Signals -> {"none", "waiting", "disconnecting"}]
    /\ exited \in BOOLEAN /\ faults \in 0 .. MaxFaults
    /\ loose \subseteq Rooms /\ (faults = 0 => loose = {})
    /\ \A r \in awaited \cup loose : work[r] # "idle"

\* "Let an in-flight tick finish so we never abandon an open transaction" (stop) is so
\* of every room but those of a tick that failed, which nobody waits for.
NothingAbandoned == exited => \A r \in Rooms \ loose : work[r] # "transacting"

\* A tick begins when the one before has left every room (running), or has failed and
\* left them to themselves.
TicksDoNotOverlap == running' /\ ~running => \A r \in Rooms \ loose : work[r] = "idle"

\* Of every room, as the comment of stop has it: refuted when a room rejects.
NeverAbandoned == exited => \A r \in Rooms : work[r] # "transacting"

\* Of every room, as the flag running means it (scheduler.ts 53-55): likewise refuted.
OneTickAtATime == running' /\ ~running => \A r \in Rooms : work[r] = "idle"

\* A signal ends the process, though ticks keep coming until it arrives.
SignalEnds == \A s \in Signals : shutdown[s] # "none" ~> exited
=============================================================================
