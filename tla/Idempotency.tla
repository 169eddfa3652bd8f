----------------------------- MODULE Idempotency -----------------------------
(***************************************************************************)
(* IdempotencyMiddleware: the requests that carry one Idempotency-Key to   *)
(* one route, and the Redis record they share, one record per credential.  *)
(* One action is one Redis command or one thing that happens to the        *)
(* response; the handler is external and is one step, its effect.          *)
(*                                                                         *)
(* A response whose connection is gone when it is written emits "close"    *)
(* and not "finish".                                                       *)
(***************************************************************************)
EXTENDS Integers, FiniteSetTheorems, TLAPS

CONSTANTS Attempts,  \* requests with the key
          Scopes,    \* hashes of the credentials they may carry
          Bodies,    \* fingerprints of the bodies they may carry
          Faults,    \* what may go wrong: a subset of Trouble
          None       \* no attempt

\* fail:  a handler answers with an error      drop: a connection is lost
\* slow:  a handler outlives the reservation   open: Redis fails, or the key has
\* renew: a client retries with a new token          more than 200 characters
Trouble == {"fail", "drop", "slow", "open", "renew"}

IdempotencyAssumption ==
    /\ Attempts \cap {None, "lost", "error", "409", "422"} = {}
    /\ Scopes # {} /\ Bodies # {}
    /\ Faults \subseteq Trouble

VARIABLES
    record,   \* the Redis record of each scope
    pc,
    scope, body, \* of each attempt
    lost,     \* attempts whose connection is gone
    ran,      \* attempts whose handler has taken effect
    answer,   \* what each client was answered
    settled   \* the attempts that had been answered and stored when this one began

vars == <<record, pc, scope, body, lost, ran, answer, settled>>
mine == <<scope, body, settled>>

Absent == [state |-> "absent", print |-> None, response |-> None, owner |-> None]
InProgress(a) == [state |-> "in_progress", print |-> body[a], response |-> None, owner |-> a]
Completed(a)  == [state |-> "completed", print |-> body[a], response |-> a, owner |-> a]

Record(a) == record[scope[a]]
Store(a, r) == record' = [record EXCEPT ![scope[a]] = r]
Go(a, where) == pc' = [pc EXCEPT ![a] = where]
Reply(a, what) ==
    answer' = [answer EXCEPT ![a] = IF a \in lost THEN "lost" ELSE what]

Settled(b) == b \in ran /\ answer[b] = b /\ pc[b] = "done"
Began(a) == settled' = [settled EXCEPT ![a] = {b \in Attempts : Settled(b)}]

-----------------------------------------------------------------------------
Init ==
    /\ record = [s \in Scopes |-> Absent]
    /\ pc = [a \in Attempts |-> "new"]
    /\ scope \in [Attempts -> Scopes] /\ body \in [Attempts -> Bodies]
    /\ ("renew" \notin Faults => \A a, b \in Attempts : scope[a] = scope[b])
    /\ lost = {} /\ ran = {} /\ answer = [a \in Attempts |-> None]
    /\ settled = [a \in Attempts |-> {}]

\* fault: the key is looked up and then set.
ReserveAlways(a) ==
    /\ pc[a] = "new"
    /\ Record(a).state # "completed"
    /\ Store(a, InProgress(a))
    /\ Began(a)
    /\ Go(a, "run")
    /\ UNCHANGED <<scope, body, lost, ran, answer>>
\* SET NX with the in-flight TTL.

Reserve(a) ==
    /\ pc[a] = "new"
    /\ Record(a) = Absent
    /\ Store(a, InProgress(a))
    /\ Began(a)
    /\ Go(a, "run")
    /\ UNCHANGED <<scope, body, lost, ran, answer>>

ReserveLost(a) ==
    /\ pc[a] = "new"
    /\ Record(a) # Absent
    /\ Began(a)
    /\ Go(a, "read")
    /\ UNCHANGED <<record, scope, body, lost, ran, answer>>

\* Redis does not answer, or the key is not one the middleware protects.
Unprotected(a) ==
    /\ pc[a] = "new" /\ "open" \in Faults
    /\ Go(a, "bare")
    /\ UNCHANGED <<record, mine, lost, ran, answer>>

\* GET, and the branch it decides.  A record that is gone by now lets the
\* attempt through without a reservation.
ReadGone(a) ==
    /\ pc[a] = "read" /\ Record(a) = Absent
    /\ Go(a, "run")
    /\ UNCHANGED <<record, mine, lost, ran, answer>>

RefuseOtherBody(a) ==
    /\ pc[a] = "read" /\ Record(a) # Absent
    /\ Record(a).print # body[a]
    /\ Reply(a, "422") /\ Go(a, "done")
    /\ UNCHANGED <<record, mine, lost, ran>>

RefuseInProgress(a) ==
    /\ pc[a] = "read" /\ Record(a).state = "in_progress"
    /\ Record(a).print = body[a]
    /\ Reply(a, "409") /\ Go(a, "done")
    /\ UNCHANGED <<record, mine, lost, ran>>

Replay(a) ==
    /\ pc[a] = "read" /\ Record(a).state = "completed"
    /\ Record(a).print = body[a]
    /\ Reply(a, Record(a).response) /\ Go(a, "done")
    /\ UNCHANGED <<record, mine, lost, ran>>

\* The handler takes effect, whether or not the client is still there.
Handle(a) ==
    /\ pc[a] \in {"run", "bare"}
    /\ ran' = ran \cup {a}
    /\ Go(a, IF pc[a] = "run" THEN "send" ELSE "sendBare")
    /\ UNCHANGED <<record, mine, lost, answer>>

HandleFails(a) ==
    /\ pc[a] \in {"run", "bare"} /\ "fail" \in Faults
    /\ Go(a, IF pc[a] = "run" THEN "sendError" ELSE "sendBare")
    /\ UNCHANGED <<record, mine, lost, ran, answer>>

\* The response is flushed: "finish", after which it is stored.
Finish(a) ==
    /\ pc[a] \in {"send", "sendError", "sendBare"}
    /\ Reply(a, IF a \in ran THEN a ELSE "error")
    /\ Go(a, CASE a \in lost \/ pc[a] = "sendBare" -> "done"
               [] pc[a] = "send"                   -> "keep"
               [] OTHER                            -> "free")
    /\ UNCHANGED <<record, mine, lost, ran>>

Keep(a) ==
    /\ pc[a] = "keep"
    /\ Store(a, Completed(a))
    /\ Go(a, "done")
    /\ UNCHANGED <<mine, lost, ran, answer>>

Free(a) ==
    /\ pc[a] = "free"
    /\ Store(a, Absent)
    /\ Go(a, "done")
    /\ UNCHANGED <<mine, lost, ran, answer>>

\* The connection goes before the response has ended: "close" frees the key, and
\* the handler runs on.
Close(a) ==
    /\ pc[a] = "run" /\ a \notin lost /\ "drop" \in Faults
    /\ lost' = lost \cup {a}
    /\ Store(a, Absent)
    /\ UNCHANGED <<pc, mine, ran, answer>>

\* It goes after that and before the flush: neither event does anything.
CloseLate(a) ==
    /\ pc[a] \in {"send", "sendError"} /\ a \notin lost /\ "drop" \in Faults
    /\ lost' = lost \cup {a}
    /\ UNCHANGED <<record, pc, mine, ran, answer>>

\* The reservation lasts 60 s, which a handler outlives if it is slow.

Expire(s) ==
    /\ record[s].state = "in_progress"
    /\ \/ "slow" \in Faults
       \/ pc[record[s].owner] = "done"
    /\ record' = [record EXCEPT ![s] = Absent]
    /\ UNCHANGED <<pc, mine, lost, ran, answer>>

Step(a) ==
    \/ Reserve(a) \/ ReserveLost(a) \/ Unprotected(a) \/ ReadGone(a)
    \/ RefuseOtherBody(a) \/ RefuseInProgress(a) \/ Replay(a)
    \/ Handle(a) \/ HandleFails(a) \/ Finish(a) \/ Keep(a) \/ Free(a)

Next ==
    \/ \E a \in Attempts : Step(a) \/ Close(a) \/ CloseLate(a)
    \/ \E s \in Scopes : Expire(s)

Spec == Init /\ [][Next]_vars

\* A request that has come goes on, and Redis forgets.
FairSpec ==
    /\ Spec
    /\ \A a \in Attempts : WF_vars(pc[a] # "new" /\ Step(a))
    /\ \A s \in Scopes : WF_vars(Expire(s))
-----------------------------------------------------------------------------
\* A completed record holds the response of a handler that took effect (persist
\* 177-182: only 2xx responses are cached).
TypeOK ==
    /\ \A s \in Scopes :
          \/ record[s] = Absent
          \/ \E a \in Attempts : record[s] = InProgress(a)
          \/ \E a \in ran : record[s] = Completed(a)
    /\ pc \in [Attempts -> {"new", "read", "run", "bare", "send", "sendError", "sendBare",
                            "keep", "free", "done"}]
    /\ lost \subseteq Attempts /\ ran \subseteq Attempts
    /\ answer \in [Attempts -> Attempts \cup {None, "lost", "error", "409", "422"}]

\* A client is only ever answered with what a handler did for the body this
\* client sent, with its credential, whatever else goes wrong (use 112-152).
AnswersTrue ==
    \A a \in Attempts : answer[a] \in Attempts =>
        /\ answer[a] \in ran
        /\ body[answer[a]] = body[a] /\ scope[answer[a]] = scope[a]

\* "Replaying a request with the same key returns the original response instead
\* of performing the action twice" (idempotent.decorator.ts 38): however the
\* attempts of a key interleave, one of them takes effect.
KeyRunsOnce == Cardinality(ran) <= 1

\* An attempt that begins after a response was stored gets that response, or 422.
RetriesReplay ==
    \A a, b \in Attempts : b \in settled[a] /\ pc[a] = "done" =>
        answer[a] = IF body[a] = body[b] THEN b ELSE "422"

\* A key is not refused for ever: a reservation is completed, freed or forgotten.
KeysComeFree ==
    \A s \in Scopes : (record[s].state = "in_progress") ~> (record[s].state # "in_progress")
-----------------------------------------------------------------------------
(* Proofs, for any attempts, credentials and bodies.                         *)

Shape ==
    /\ record \in [Scopes -> [state : {"absent", "in_progress", "completed"},
                               print : Bodies \cup {None}, response : Attempts \cup {None},
                               owner : Attempts \cup {None}]]
    /\ pc \in [Attempts -> {"new", "read", "run", "bare", "send", "sendError", "sendBare",
                             "keep", "free", "done"}]
    /\ scope \in [Attempts -> Scopes] /\ body \in [Attempts -> Bodies]
    /\ lost \subseteq Attempts /\ ran \subseteq Attempts
    /\ answer \in [Attempts -> Attempts \cup {None, "lost", "error", "409", "422"}]
    /\ settled \in [Attempts -> SUBSET Attempts]

\* A record belongs to an attempt with its credential; a stored response is of a
\* handler that took effect.
Owned ==
    \A s \in Scopes :
        \/ record[s] = Absent
        \/ \E a \in Attempts : scope[a] = s /\ record[s] = InProgress(a)
        \/ \E a \in ran : scope[a] = s /\ record[s] = Completed(a)

\* Who is about to send or to store a response has taken effect.
Earned == \A a \in Attempts : pc[a] \in {"send", "keep"} => a \in ran

Inv == Shape /\ Owned /\ Earned /\ AnswersTrue

\* Without faults there is one record, and whoever runs the handler holds it; a
\* handler that took effect has stored its response or is about to.
Alone ==
    /\ \A a, b \in Attempts : scope[a] = scope[b]
    /\ lost = {}
    /\ \A a \in Attempts :
          /\ pc[a] \in {"new", "read", "run", "send", "keep", "done"}
          /\ pc[a] \in {"run", "send", "keep"} => Record(a) = InProgress(a)
          /\ pc[a] = "read" => Record(a) # Absent
          /\ Record(a) = InProgress(a) => pc[a] \in {"run", "send", "keep"}
          /\ a \in ran => pc[a] \in {"send", "keep"} \/ Record(a) = Completed(a)

\* An attempt that begins after a response was stored never gets past the look-up.
Replayed ==
    \A a \in Attempts : \A b \in settled[a] :
        /\ b \in ran /\ Record(b) = Completed(b)
        /\ pc[a] \in {"read", "done"}
        /\ pc[a] = "done" => answer[a] = IF body[a] = body[b] THEN b ELSE "422"

\* Nothing is stored and nothing has run in the initial states.
LEMMA InvInit == ASSUME IdempotencyAssumption, Init PROVE Inv
BY DEF Init, Inv, Shape, Owned, Earned, AnswersTrue, Absent, IdempotencyAssumption

\* Each step keeps every stored response a response of a handler that ran.
LEMMA InvStep == ASSUME IdempotencyAssumption, Inv, [Next]_vars PROVE Inv'
<1>1. ASSUME NEW a \in Attempts, Reserve(a) PROVE Inv'
  BY <1>1 DEF Reserve, Inv, Shape, Owned, Earned, AnswersTrue,
     IdempotencyAssumption, Record, Store, Go, Began, Settled, InProgress,
     Completed, Absent
<1>2. ASSUME NEW a \in Attempts, ReserveLost(a) PROVE Inv'
  BY <1>2 DEF ReserveLost, Inv, Shape, Owned, Earned, AnswersTrue,
     IdempotencyAssumption, Record, Go, Began, Settled, InProgress, Completed,
     Absent
<1>3. ASSUME NEW a \in Attempts, Unprotected(a) PROVE Inv'
  BY <1>3 DEF Unprotected, Inv, Shape, Owned, Earned, AnswersTrue,
     IdempotencyAssumption, Go, InProgress, Completed, Absent, mine
<1>4. ASSUME NEW a \in Attempts, ReadGone(a) PROVE Inv'
  BY <1>4 DEF ReadGone, Inv, Shape, Owned, Earned, AnswersTrue,
     IdempotencyAssumption, Record, Go, InProgress, Completed, Absent, mine
<1>5. ASSUME NEW a \in Attempts, RefuseOtherBody(a) PROVE Inv'
  BY <1>5 DEF RefuseOtherBody, Inv, Shape, Owned, Earned, AnswersTrue,
     IdempotencyAssumption, Record, Go, Reply, InProgress, Completed, Absent, mine
<1>6. ASSUME NEW a \in Attempts, RefuseInProgress(a) PROVE Inv'
  BY <1>6 DEF RefuseInProgress, Inv, Shape, Owned, Earned, AnswersTrue,
     IdempotencyAssumption, Record, Go, Reply, InProgress, Completed, Absent, mine
<1>7. ASSUME NEW a \in Attempts, Replay(a) PROVE Inv'
  BY <1>7 DEF Replay, Inv, Shape, Owned, Earned, AnswersTrue, IdempotencyAssumption,
     Record, Go, Reply, InProgress, Completed, Absent, mine
<1>8. ASSUME NEW a \in Attempts, Handle(a) PROVE Inv'
  BY <1>8 DEF Handle, Inv, Shape, Owned, Earned, AnswersTrue, IdempotencyAssumption,
     Go, InProgress, Completed, Absent, mine
<1>9. ASSUME NEW a \in Attempts, HandleFails(a) PROVE Inv'
  BY <1>9 DEF HandleFails, Inv, Shape, Owned, Earned, AnswersTrue,
     IdempotencyAssumption, Go, InProgress, Completed, Absent, mine
<1>10. ASSUME NEW a \in Attempts, Finish(a) PROVE Inv'
  BY <1>10 DEF Finish, Inv, Shape, Owned, Earned, AnswersTrue,
     IdempotencyAssumption, Go, Reply, InProgress, Completed, Absent, mine
<1>11. ASSUME NEW a \in Attempts, Keep(a) PROVE Inv'
  BY <1>11 DEF Keep, Inv, Shape, Owned, Earned, AnswersTrue, IdempotencyAssumption,
     Store, Go, InProgress, Completed, Absent, mine
<1>12. ASSUME NEW a \in Attempts, Free(a) PROVE Inv'
  BY <1>12 DEF Free, Inv, Shape, Owned, Earned, AnswersTrue, IdempotencyAssumption,
     Store, Go, InProgress, Completed, Absent, mine
<1>13. ASSUME NEW a \in Attempts, Close(a) PROVE Inv'
  BY <1>13 DEF Close, Inv, Shape, Owned, Earned, AnswersTrue, IdempotencyAssumption,
     Store, InProgress, Completed, Absent, mine
<1>14. ASSUME NEW a \in Attempts, CloseLate(a) PROVE Inv'
  BY <1>14 DEF CloseLate, Inv, Shape, Owned, Earned, AnswersTrue,
     IdempotencyAssumption, InProgress, Completed, Absent, mine
<1>15. ASSUME NEW s \in Scopes, Expire(s) PROVE Inv'
  <2>1. /\ record' = [record EXCEPT ![s] = Absent]
        /\ UNCHANGED <<pc, scope, body, settled, lost, ran, answer>>
    BY <1>15 DEF Expire, mine
  <2>2. Shape'
    BY <2>1 DEF Inv, Shape, Absent
  <2>3. Owned'
    <3>1. record'[s] = Absent
      BY <2>1 DEF Inv, Shape
    <3>2. \A q \in Scopes \ {s} : record'[q] = record[q]
      BY <2>1 DEF Inv, Shape
    <3>3. \A a \in Attempts : InProgress(a)' = InProgress(a) /\ Completed(a)' = Completed(a)
      BY <2>1 DEF InProgress, Completed
    <3>. QED
      BY <2>1, <3>1, <3>2, <3>3 DEF Inv, Owned, Shape, Absent
  <2>. QED
    BY <2>1, <2>2, <2>3 DEF Inv, Earned, AnswersTrue
<1>16. CASE UNCHANGED vars
  BY <1>16 DEF vars, Inv, Shape, Owned, Earned, AnswersTrue, IdempotencyAssumption,
     InProgress, Completed
<1>. QED
  BY <1>1, <1>2, <1>3, <1>4, <1>5, <1>6, <1>7, <1>8, <1>9, <1>10, <1>11, <1>12,
     <1>13, <1>14, <1>15, <1>16 DEF Next, Step

\* Records stay those of attempts, and answers true, with lost connections, handlers that
\* fail or outlive their reservation, a Redis that does not answer and renewed credentials
\* (idempotency.middleware.ts use 112-152).
THEOREM AnswersStayTrue == ASSUME IdempotencyAssumption PROVE Spec => [](TypeOK /\ AnswersTrue)
<1>1. Init => Inv
  BY InvInit
<1>2. Inv /\ [Next]_vars => Inv'
  BY InvStep
<1>3. Inv => TypeOK /\ AnswersTrue
  BY DEF Inv, Shape, Owned, TypeOK
<1>. QED
  BY <1>1, <1>2, <1>3, PTL DEF Spec

\* Nobody holds a record in the initial states.
LEMMA AloneInit == ASSUME IdempotencyAssumption, Faults = {}, Init PROVE Alone /\ Replayed
BY DEF Init, Alone, Replayed, Record, Absent, InProgress

\* Each step keeps the record with its holder, which is what makes SET NX a lock.
LEMMA AloneStep ==
    ASSUME IdempotencyAssumption, Faults = {}, Inv, Alone, Replayed, [Next]_vars
    PROVE  Alone' /\ Replayed'
<1>1. ASSUME NEW a \in Attempts, Reserve(a) PROVE (Alone /\ Replayed)'
  <2>1. /\ pc[a] = "new" /\ Record(a) = Absent
        /\ record' = [record EXCEPT ![scope[a]] = InProgress(a)]
        /\ pc' = [pc EXCEPT ![a] = "run"]
        /\ settled' = [settled EXCEPT ![a] = {b \in Attempts : Settled(b)}]
        /\ UNCHANGED <<scope, body, lost, ran, answer>>
    BY <1>1 DEF Reserve, Store, Go, Began
  <2>2. \A b \in Attempts : Record(b) = Absent /\ scope[b] = scope[a]
    BY <2>1 DEF Alone, Record
  <2>3. \A b \in Attempts : InProgress(b) # Absent /\ Completed(b) # Absent
    BY DEF InProgress, Completed, Absent
  <2>4. ran = {} /\ \A b \in Attempts : pc[b] \in {"new", "done"}
    BY <2>2, <2>3 DEF Alone, Inv, Shape
  <2>5. \A b \in Attempts : settled'[b] = {}
    BY <2>1, <2>4 DEF Settled, Replayed, Inv, Shape
  <2>6. \A b \in Attempts : Record(b)' = InProgress(a) /\ InProgress(b)' = InProgress(b)
    BY <2>1, <2>2 DEF Record, InProgress, Inv, Shape
  <2>7. \A b \in Attempts : InProgress(b) = InProgress(a) => b = a
    BY DEF InProgress
  <2>8. Alone'
    BY <2>1, <2>2, <2>3, <2>4, <2>6, <2>7 DEF Alone, Inv, Shape, Absent
  <2>. QED
    BY <2>5, <2>8 DEF Replayed
<1>2. ASSUME NEW a \in Attempts, ReserveLost(a) PROVE (Alone /\ Replayed)'
  <2>1. /\ pc[a] = "new" /\ Record(a) # Absent
        /\ pc' = [pc EXCEPT ![a] = "read"]
        /\ settled' = [settled EXCEPT ![a] = {b \in Attempts : Settled(b)}]
        /\ UNCHANGED <<record, scope, body, lost, ran, answer>>
    BY <1>2 DEF ReserveLost, Go, Began
  <2>2. \A b \in Attempts : /\ Record(b)' = Record(b) /\ InProgress(b)' = InProgress(b)
                              /\ Completed(b)' = Completed(b)
    BY <2>1 DEF Record, InProgress, Completed
  <2>3. Alone'
    BY <2>1, <2>2 DEF Alone, Inv, Shape, Absent
  <2>4. \A b \in settled'[a] : b \in ran /\ Record(b) = Completed(b)
    BY <2>1 DEF Settled, Alone, Inv, Shape
  <2>5. \A c \in Attempts : \A b \in settled'[c] : b \in ran /\ b \in Attempts
    BY <2>1, <2>4 DEF Replayed, Inv, Shape
  <2>. QED
    BY <2>1, <2>2, <2>3, <2>4, <2>5 DEF Replayed, Inv, Shape
<1>3. ASSUME NEW a \in Attempts, Unprotected(a) PROVE (Alone /\ Replayed)'
  BY <1>3 DEF Unprotected, Inv, Shape, Owned, Alone, Replayed,
     IdempotencyAssumption, Record, Go, InProgress, Completed, Absent, mine
<1>4. ASSUME NEW a \in Attempts, ReadGone(a) PROVE (Alone /\ Replayed)'
  BY <1>4 DEF ReadGone, Inv, Shape, Owned, Alone, Replayed, IdempotencyAssumption,
     Record, Go, InProgress, Completed, Absent, mine
<1>5. ASSUME NEW a \in Attempts, RefuseOtherBody(a) PROVE (Alone /\ Replayed)'
  BY <1>5 DEF RefuseOtherBody, Inv, Shape, Owned, Alone, Replayed,
     IdempotencyAssumption, Record, Go, Reply, InProgress, Completed, Absent, mine
<1>6. ASSUME NEW a \in Attempts, RefuseInProgress(a) PROVE (Alone /\ Replayed)'
  BY <1>6 DEF RefuseInProgress, Inv, Shape, Owned, Alone, Replayed,
     IdempotencyAssumption, Record, Go, Reply, InProgress, Completed, Absent, mine
<1>7. ASSUME NEW a \in Attempts, Replay(a) PROVE (Alone /\ Replayed)'
  BY <1>7 DEF Replay, Inv, Shape, Owned, Alone, Replayed, IdempotencyAssumption,
     Record, Go, Reply, InProgress, Completed, Absent, mine
<1>8. ASSUME NEW a \in Attempts, Handle(a) PROVE (Alone /\ Replayed)'
  BY <1>8 DEF Handle, Inv, Shape, Owned, Alone, Replayed, IdempotencyAssumption,
     Record, Go, InProgress, Completed, Absent, mine
<1>9. ASSUME NEW a \in Attempts, HandleFails(a) PROVE (Alone /\ Replayed)'
  BY <1>9 DEF HandleFails, Inv, Shape, Owned, Alone, Replayed,
     IdempotencyAssumption, Record, Go, InProgress, Completed, Absent, mine
<1>10. ASSUME NEW a \in Attempts, Finish(a) PROVE (Alone /\ Replayed)'
  BY <1>10 DEF Finish, Inv, Shape, Owned, Alone, Replayed, IdempotencyAssumption,
     Record, Go, Reply, InProgress, Completed, Absent, mine
<1>11. ASSUME NEW a \in Attempts, Keep(a) PROVE (Alone /\ Replayed)'
  <2>1. /\ pc[a] = "keep" /\ record' = [record EXCEPT ![scope[a]] = Completed(a)]
        /\ pc' = [pc EXCEPT ![a] = "done"] /\ UNCHANGED <<scope, body, settled, lost, ran, answer>>
    BY <1>11 DEF Keep, Store, Go, mine
  <2>2. \A b \in Attempts : Record(b) = InProgress(a) /\ scope[b] = scope[a]
    BY <2>1 DEF Alone, Record
  <2>3. \A b \in Attempts : InProgress(b) = InProgress(a) => b = a
    BY DEF InProgress
  <2>4. \A b, c \in Attempts : InProgress(b) # Completed(c)
    BY DEF InProgress, Completed
  <2>5. /\ \A b \in Attempts : pc[b] \in {"run", "send", "keep"} => b = a
        /\ ran \subseteq {a} /\ a \in ran
    BY <2>1, <2>2, <2>3, <2>4 DEF Alone, Inv, Shape, Earned
  <2>6. \A b \in Attempts : settled[b] = {}
    BY <2>2, <2>4 DEF Replayed, Inv, Shape
  <2>7. \A b \in Attempts : Record(b)' = Completed(a) /\ Completed(b)' = Completed(b)
                              /\ InProgress(b)' = InProgress(b)
    BY <2>1, <2>2 DEF Record, Completed, InProgress, Inv, Shape
  <2>8. Completed(a) # Absent
    BY DEF Completed, Absent
  <2>9. Alone'
    BY <2>1, <2>2, <2>4, <2>5, <2>7, <2>8 DEF Alone, Inv, Shape
  <2>. QED
    BY <2>1, <2>6, <2>9 DEF Replayed
<1>12. ASSUME NEW a \in Attempts, Free(a) PROVE (Alone /\ Replayed)'
  BY <1>12 DEF Free, Inv, Shape, Owned, Alone, Replayed, IdempotencyAssumption,
     Record, Store, Go, InProgress, Completed, Absent, mine
<1>13. ASSUME NEW a \in Attempts, Close(a) PROVE (Alone /\ Replayed)'
  BY <1>13 DEF Close, Inv, Shape, Owned, Alone, Replayed, IdempotencyAssumption,
     Record, Store, InProgress, Completed, Absent, mine
<1>14. ASSUME NEW a \in Attempts, CloseLate(a) PROVE (Alone /\ Replayed)'
  BY <1>14 DEF CloseLate, Inv, Shape, Owned, Alone, Replayed, IdempotencyAssumption,
     Record, InProgress, Completed, Absent, mine
<1>15. ASSUME NEW s \in Scopes, Expire(s) PROVE (Alone /\ Replayed)'
  <2>0. record[s].state = "in_progress" /\ s \in Scopes
    BY <1>15 DEF Expire
  <2>1. PICK a \in Attempts : scope[a] = s /\ record[s] = InProgress(a)
    <3>1. record[s] # Absent
      BY <2>0 DEF Absent
    <3>2. \A b \in Attempts : record[s] # Completed(b)
      BY <2>0 DEF Completed
    <3>. QED
      BY <2>0, <3>1, <3>2 DEF Inv, Owned, Shape
  <2>2. pc[a] = "done"
    BY <1>15, <2>1 DEF Expire, InProgress
  <2>. QED
    BY <2>1, <2>2 DEF Alone, Record
<1>16. CASE UNCHANGED vars
  BY <1>16 DEF vars, Inv, Shape, Owned, Alone, Replayed, IdempotencyAssumption,
     Record, InProgress, Completed
<1>. QED
  BY <1>1, <1>2, <1>3, <1>4, <1>5, <1>6, <1>7, <1>8, <1>9, <1>10, <1>11, <1>12,
     <1>13, <1>14, <1>15, <1>16 DEF Next, Step

\* Without faults a key runs its handler once, and a retry that begins after the response
\* was stored gets that response, or 422 for another body, for any number of attempts
\* (idempotency.middleware.ts use 112-152).
THEOREM KeyRunsOnceOnly ==
    ASSUME IdempotencyAssumption, Faults = {} PROVE Spec => [](KeyRunsOnce /\ RetriesReplay)
<1>1. Init => Inv /\ Alone /\ Replayed
  BY InvInit, AloneInit
<1>2. Inv /\ Alone /\ Replayed /\ [Next]_vars => (Inv /\ Alone /\ Replayed)'
  BY InvStep, AloneStep
<1>3. Inv /\ Alone /\ Replayed => KeyRunsOnce
  <2>. SUFFICES ASSUME Inv, Alone PROVE Cardinality(ran) <= 1
    BY DEF KeyRunsOnce
  <2>1. \A a, b \in ran : a = b
    <3>1. \A a \in ran : Record(a).owner = a
      BY DEF Inv, Shape, Alone, InProgress, Completed
    <3>2. \A a, b \in ran : Record(a) = Record(b)
      BY DEF Inv, Shape, Alone, Record
    <3>. QED
      BY <3>1, <3>2
  <2>2. CASE ran = {}
    BY <2>2, FS_EmptySet
  <2>3. CASE ran # {}
    <3>1. PICK a \in ran : ran = {a}
      BY <2>1, <2>3
    <3>. QED
      BY <3>1, FS_Singleton
  <2>. QED
    BY <2>2, <2>3
<1>4. Replayed => RetriesReplay
  BY DEF Replayed, RetriesReplay
<1>. QED
  BY <1>1, <1>2, <1>3, <1>4, PTL DEF Spec
=============================================================================
