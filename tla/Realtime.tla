------------------------------ MODULE Realtime ------------------------------
(***************************************************************************)
(* The realtime gateway, apps/realtime/src/main.ts: the replicas listen to *)
(* the engine's events in Redis and emit them to the sockets of one table, *)
(* through an adapter that publishes every emit to the other replicas.     *)
(*                                                                         *)
(* A connection to Redis keeps the order of what it is sent, and loses     *)
(* what is published while it is down.                                     *)
(***************************************************************************)
EXTENDS Integers, Sequences, SequencesExt

CONSTANTS Replicas,
          Sockets,
          Home,      \* the replica of each socket
          MaxEvents, \* RATE_LIMIT.maxEvents
          Events,    \* bound: events the engine publishes
          Downs      \* bound: connections lost

RealtimeAssumption ==
    /\ Home \in [Sockets -> Replicas] /\ MaxEvents \in Nat \ {0}
    /\ Events \in Nat /\ Downs \in Nat

VARIABLES
    connected, \* sockets
    room,      \* sockets in the table's room
    bucket,    \* per socket: room:join messages counted in its window
    published, \* events so far; an event is its number
    up,        \* replicas whose subscription to game:events is alive
    inbox,     \* per replica: events of the engine on their way
    adapter,   \* per replica: emits of other replicas on their way
    got,       \* per socket: the events it was sent
    downs

sockets == <<connected, room, bucket>>
vars == <<sockets, published, up, inbox, adapter, got, downs>>

Init ==
    /\ connected = {} /\ room = {} /\ bucket = [s \in Sockets |-> 0]
    /\ published = 0 /\ up = Replicas
    /\ inbox = [r \in Replicas |-> <<>>] /\ adapter = [r \in Replicas |-> <<>>]
    /\ got = [s \in Sockets |-> <<>>] /\ downs = 0

Connect(s) ==
    /\ s \notin connected /\ connected' = connected \cup {s}
    /\ UNCHANGED <<room, bucket, published, up, inbox, adapter, got, downs>>

\* The socket's rooms and its bucket go with it.
Disconnect(s) ==
    /\ s \in connected
    /\ connected' = connected \ {s} /\ room' = room \ {s} /\ bucket' = [bucket EXCEPT ![s] = 0]
    /\ UNCHANGED <<published, up, inbox, adapter, got, downs>>

\* withinBudget, and the join if it says so.
Join(s) ==
    /\ s \in connected /\ bucket[s] <= MaxEvents
    /\ bucket' = [bucket EXCEPT ![s] = @ + 1]
    /\ room' = IF bucket'[s] <= MaxEvents THEN room \cup {s} ELSE room
    /\ UNCHANGED <<connected, published, up, inbox, adapter, got, downs>>

LeaveRoom(s) ==
    /\ s \in room /\ room' = room \ {s}
    /\ UNCHANGED <<connected, bucket, published, up, inbox, adapter, got, downs>>

\* The window of a bucket is over.
Refill(s) ==
    /\ bucket[s] > 0 /\ bucket' = [bucket EXCEPT ![s] = 0]
    /\ UNCHANGED <<connected, room, published, up, inbox, adapter, got, downs>>

Publish ==
    /\ published < Events /\ published' = published + 1
    /\ inbox' = [r \in Replicas |-> IF r \in up THEN Append(inbox[r], published') ELSE inbox[r]]
    /\ UNCHANGED <<sockets, up, adapter, got, downs>>

\* What the sockets of a replica get of an emit to the room.
Local(r, e) ==
    [s \in Sockets |-> IF s \in room /\ Home[s] = r THEN Append(got[s], e) ELSE got[s]]

Others(r, e) == [q \in Replicas |-> IF q = r THEN adapter[q] ELSE Append(adapter[q], e)]

\* The 'message' handler: io.to(room).emit.

Emit(r) ==
    /\ inbox[r] # <<>> /\ inbox' = [inbox EXCEPT ![r] = Tail(@)]
    /\ got' = Local(r, Head(inbox[r])) /\ adapter' = Others(r, Head(inbox[r]))
    /\ UNCHANGED <<sockets, published, up, downs>>

\* The adapter hands the emit of another replica to the sockets of this one.
Relay(r) ==
    /\ adapter[r] # <<>> /\ adapter' = [adapter EXCEPT ![r] = Tail(@)]
    /\ got' = Local(r, Head(adapter[r]))
    /\ UNCHANGED <<sockets, published, up, inbox, downs>>

\* A replica's subscriber loses Redis, and resubscribes.
Down(r) ==
    /\ r \in up /\ downs < Downs /\ downs' = downs + 1
    /\ up' = up \ {r} /\ inbox' = [inbox EXCEPT ![r] = <<>>]
    /\ UNCHANGED <<sockets, published, adapter, got>>

Resubscribe(r) ==
    /\ r \notin up /\ up' = up \cup {r}
    /\ UNCHANGED <<sockets, published, inbox, adapter, got, downs>>

Next ==
    \/ Publish
    \/ \E s \in Sockets : Connect(s) \/ Disconnect(s) \/ Join(s) \/ LeaveRoom(s) \/ Refill(s)
    \/ \E r \in Replicas : Emit(r) \/ Relay(r) \/ Down(r) \/ Resubscribe(r)

Spec == Init /\ [][Next]_vars

\* Messages that have arrived are handled; of clients and of the engine nothing is assumed.
FairSpec == Spec /\ \A r \in Replicas : WF_vars(Emit(r)) /\ WF_vars(Relay(r))
-----------------------------------------------------------------------------
\* Every socket is sent the engine's events in their order, each at most once,
\* through lost connections and joins and leaves at any time.
OnceInOrder == \A s \in Sockets : \A i, j \in DOMAIN got[s] : i < j => got[s][i] < got[s][j]

\* "so broadcasts reach clients attached to any replica" (main.ts 47): while no
\* connection is lost, who is in the room when an event comes to the gateway, and
\* stays, is sent it.
Reaches ==
    \A s \in Sockets, e \in 1 .. Events :
        (Contains(inbox[Home[s]], e) /\ s \in room) ~> (s \notin room \/ Contains(got[s], e))
=============================================================================
