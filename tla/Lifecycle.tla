------------------------------ MODULE Lifecycle ------------------------------
(***************************************************************************)
(* The life of one API process: bootstrap, the connections it opens, the   *)
(* requests it serves, the readiness probe, and the shutdown that SIGTERM  *)
(* starts twice, in Nest's own listener and in main.ts.                    *)
(*                                                                         *)
(* Nest closes an application in this order: onModuleDestroy of every      *)
(* provider, then the HTTP server, which waits for its open requests.      *)
(***************************************************************************)
EXTENDS Naturals, FiniteSets

CONSTANTS Requests,
          Commands,   \* bound: queries and Redis commands of a request
          MaxOutages  \* bound: changes of what is up

LifecycleAssumption == Commands \in Nat \ {0} /\ MaxOutages \in Nat

Stores == {"db", "cache"}
Closers == {"nest", "main"}

VARIABLES
    phase,   \* of bootstrap: connecting, listening, or rejected
    up,      \* which stores answer
    conn,    \* of each store: none, retrying, open, or closed by onModuleDestroy
    server,  \* whether the HTTP server accepts requests
    request, \* of each: none, open, answered, or failed: by an outage or cut by us
    left,    \* the commands it has left
    asked,   \* ghost: requests that were accepted before the signal
    probe,   \* the checks of the readiness probe that have ended, and how
    ready,   \* its last answer
    was,     \* ghost: the stores that were up at some moment of that probe
    closer,  \* of each shutdown: idle, closing its stores, then its server, or over
    todo,    \* the stores it has not closed
    exit,    \* how the process ended
    outages

traffic == <<request, left, asked>>
probing == <<probe, ready, was>>
closing == <<closer, todo>>
vars == <<phase, up, conn, server, traffic, probing, closing, exit, outages>>

Running == exit = "running"
Open == {q \in Requests : request[q] = "open"}
Signalled == \E c \in Closers : closer[c] # "idle"
NotProbed == [s \in Stores |-> "none"]

Init ==
    /\ phase = "connecting" /\ up \in SUBSET Stores
    /\ conn = [s \in Stores |-> "none"]
    /\ server = FALSE /\ request = [q \in Requests |-> "none"]
    /\ left = [q \in Requests |-> 0] /\ asked = {}
    /\ probe = NotProbed /\ ready = "none" /\ was = {}
    /\ closer = [c \in Closers |-> "idle"] /\ todo = [c \in Closers |-> {}]
    /\ exit = "running" /\ outages = 0

\* Outside the process: a store goes down or comes back.
Outage(s) ==
    /\ Running /\ outages < MaxOutages /\ outages' = outages + 1
    /\ up' = IF s \in up THEN up \ {s} ELSE up \cup {s}
    /\ was' = was \cup up'
    /\ UNCHANGED <<phase, conn, server, traffic, probe, ready, closing, exit>>

-----------------------------------------------------------------------------
\* onModuleInit of one store's provider; a refused connection rejects app.listen.
OnModuleInit(s) ==
    /\ Running /\ phase = "connecting" /\ conn[s] = "none"
    /\ IF s \in up THEN conn' = [conn EXCEPT ![s] = "open"] /\ UNCHANGED phase
       ELSE /\ phase' = "rejected"
            /\ conn' = [conn EXCEPT ![s] = IF s = "cache" THEN "retrying" ELSE "none"]
    /\ UNCHANGED <<up, server, traffic, probing, closing, exit, outages>>

\* app.listen, after the providers of all modules.
Listen ==
    /\ Running /\ phase = "connecting" /\ \A s \in Stores : conn[s] = "open"
    /\ phase' = "listening" /\ server' = TRUE
    /\ UNCHANGED <<up, conn, traffic, probing, closing, exit, outages>>

\* The rejection of bootstrap is only logged (unhandledRejection).  A process that
\* neither has a connection to Redis nor tries for one has nothing left to do and
\* ends, with code 0.
NothingLeft ==
    /\ Running /\ phase = "rejected" /\ conn["cache"] = "none"
    /\ exit' = "ok"
    /\ UNCHANGED <<phase, up, conn, server, traffic, probing, closing, outages>>

-----------------------------------------------------------------------------
Accept(q) ==
    /\ Running /\ server /\ request[q] = "none"
    /\ request' = [request EXCEPT ![q] = "open"] /\ left' = [left EXCEPT ![q] = Commands]
    /\ asked' = IF Signalled THEN asked ELSE asked \cup {q}
    /\ UNCHANGED <<phase, up, conn, server, probing, closing, exit, outages>>

\* Prisma connects again for a query after $disconnect; ioredis refuses a command
\* after quit.
Answers(s) == s \in up /\ (s = "cache" => conn[s] = "open")

\* The next command of a request: the last one answers it, a refused one fails it.
Command(q, s) ==
    /\ Running /\ q \in Open
    /\ left' = [left EXCEPT ![q] = IF Answers(s) THEN @ - 1 ELSE 0]
    /\ request' = [request EXCEPT ![q] =
                      IF ~Answers(s) THEN IF s \in up THEN "cut" ELSE "failed"
                      ELSE IF left[q] = 1 THEN "answered" ELSE @]
    /\ UNCHANGED <<phase, up, conn, server, asked, probing, closing, exit, outages>>

\* One of the readiness probe's two checks; both begin at once.
Check(s) ==
    /\ Running /\ server /\ probe[s] = "none"
    /\ was' = IF probe = NotProbed THEN up ELSE was
    /\ probe' = [probe EXCEPT ![s] = IF Answers(s) THEN "up" ELSE "down"]
    /\ UNCHANGED <<phase, up, conn, server, traffic, ready, closing, exit, outages>>

\* Promise.allSettled: the answer waits for both.
Readiness ==
    /\ Running /\ \A s \in Stores : probe[s] # "none"
    /\ ready' = (IF \A s \in Stores : probe[s] = "up" THEN "ok" ELSE "degraded") /\ probe' = NotProbed
    /\ UNCHANGED <<phase, up, conn, server, traffic, was, closing, exit, outages>>

-----------------------------------------------------------------------------
\* Both listeners of the signal start to close the application.
Signal ==
    /\ Running /\ phase = "listening" /\ ~Signalled
    /\ closer' = [c \in Closers |-> "stores"] /\ todo' = [c \in Closers |-> Stores]
    /\ UNCHANGED <<phase, up, conn, server, traffic, probing, exit, outages>>

\* $disconnect, or quit.  A second quit may be refused: the shutdown that sent it
\* ends the process with an error.
OnModuleDestroy(c, s) ==
    /\ Running /\ closer[c] = "stores" /\ s \in todo[c]
    /\ conn' = [conn EXCEPT ![s] = "closed"]
    /\ todo' = [todo EXCEPT ![c] = @ \ {s}]
    /\ exit' \in IF s = "cache" /\ conn[s] = "closed" THEN {"running", "error"} ELSE {"running"}
    /\ UNCHANGED <<phase, up, server, traffic, probing, closer, outages>>

\* The HTTP server stops listening.
Dispose(c) ==
    /\ Running /\ closer[c] = "stores" /\ todo[c] = {}
    /\ closer' = [closer EXCEPT ![c] = "server"] /\ server' = FALSE
    /\ UNCHANGED <<phase, up, conn, traffic, probing, todo, exit, outages>>

\* When its last request has ended, the process is killed by the signal or exits.
Ended(c) ==
    /\ Running /\ closer[c] = "server" /\ Open = {}
    /\ closer' = [closer EXCEPT ![c] = "over"] /\ exit' = "ok"
    /\ UNCHANGED <<phase, up, conn, server, traffic, probing, todo, outages>>

Close(c) == Dispose(c) \/ Ended(c) \/ \E s \in Stores : OnModuleDestroy(c, s)

Next ==
    \/ \E s \in Stores : Outage(s) \/ OnModuleInit(s) \/ Check(s)
    \/ Listen \/ NothingLeft \/ Readiness \/ Signal
    \/ \E q \in Requests : Accept(q) \/ \E s \in Stores : Command(q, s)
    \/ \E c \in Closers : Close(c)

Spec == Init /\ [][Next]_vars

\* The event loop goes on; stores answer or refuse.
FairSpec ==
    /\ Spec /\ WF_vars(Listen) /\ WF_vars(NothingLeft)
    /\ \A s \in Stores : WF_vars(OnModuleInit(s))
    /\ \A q \in Requests : WF_vars(\E s \in Stores : Command(q, s))
    /\ \A c \in Closers : WF_vars(Close(c))
-----------------------------------------------------------------------------
\* The variables keep their types.
TypeOK ==
    /\ phase \in {"connecting", "listening", "rejected"} /\ up \subseteq Stores
    /\ conn \in [Stores -> {"none", "retrying", "open", "closed"}] /\ server \in BOOLEAN
    /\ request \in [Requests -> {"none", "open", "answered", "failed", "cut"}]
    /\ left \in [Requests -> 0 .. Commands] /\ asked \subseteq Requests
    /\ probe \in [Stores -> {"none", "up", "down"}] /\ ready \in {"none", "ok", "degraded"}
    /\ was \subseteq Stores
    /\ closer \in [Closers -> {"idle", "stores", "server", "over"}]
    /\ todo \in [Closers -> SUBSET Stores]
    /\ exit \in {"running", "ok", "error"} /\ outages \in 0 .. MaxOutages

\* "Connects eagerly at boot" (PrismaService, RedisService): no request meets a
\* store that the process has not connected to.
ServesConnected == \A q \in Requests : request[q] # "none" => \A s \in Stores : conn[s] # "none"

\* The probe answers 200 only if each dependency was up at some moment of that probe,
\* from its first check to its answer (HealthController.readiness).
ReadyMeansUp == ready' = "ok" /\ probe # NotProbed /\ probe' = NotProbed => was = Stores

\* A signal ends the process, whatever its two listeners do in which order.
SignalEnds == Signalled ~> ~Running

\* "Drain in-flight requests before the process exits." (main.ts): a request
\* accepted before the signal does not fail for the shutdown, and is answered.
Drained ==
    \A q \in asked : request[q] # "cut" /\ (~Running => request[q] \in {"answered", "failed"})

\* "a bad DATABASE_URL fails the deploy rather than the first request"
\* (PrismaService): a boot that cannot connect ends with an error.
BadBootFails == phase = "rejected" ~> exit = "error"
=============================================================================
