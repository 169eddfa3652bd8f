------------------------------- MODULE Errors -------------------------------
(***************************************************************************)
(* What becomes of a failure: the stages of a request that raise it, the   *)
(* filter that turns it into a problem document, and the client that reads *)
(* the document, shows it and tries again.  A message is its author's own  *)
(* words or a fixed text.                                                  *)
(***************************************************************************)
EXTENDS Integers, Sequences, FiniteSets

CONSTANTS Calls,      \* queries of a client
          Production, \* is the API configured for production?
          Fields,     \* fields of a form
          None

ErrorsAssumption == Production \in BOOLEAN /\ IsFiniteSet(Fields) /\ None \notin Nat

\* Middleware, then the guards in the order of AppModule, interceptors, pipe and handler.
Stages == <<"middleware", "throttler", "jwt", "roles", "idempotency", "interceptors",
            "pipes", "handler">>

\* An exception: its class, its HTTP status if it has one, the fields it names.
Thrown(class, status, fields) == [class |-> class, status |-> status, fields |-> fields]

Unknown == 0  \* the correlation id of a request that has none

DomainStatuses == {401, 403, 404, 409, 422, 429}

\* What each stage throws.
Raised(stage) ==
    CASE stage = "middleware"   -> {Thrown("Domain", 409, {}), Thrown("Error", None, {})}
      [] stage = "throttler"    -> {Thrown("Http", 429, {})}
      [] stage = "jwt"          -> {Thrown("Http", 401, {}), Thrown("Domain", 401, {})}
      [] stage = "roles"        -> {Thrown("Domain", 403, {})}
      [] stage = "idempotency"  -> {Thrown("Domain", 422, Fields)}
      [] stage = "interceptors" -> {}
      [] stage = "pipes"        -> {Thrown("Http", 400, Fields)}
      [] stage = "handler"      ->
            {Thrown("Domain", s, {}) : s \in DomainStatuses}
            \cup {Thrown("Http", s, {}) : s \in {400, 404, 409}}
            \cup {Thrown(p, None, {}) : p \in {"P2002", "P2025", "P2003", "P2034", "Prisma",
                                               "PrismaValidation", "Error"}}
            \cup {Thrown("Zod", None, Fields)}

VARIABLES
    call,    \* per call: its state, stage, id in the request's headers, attempts
    minted,  \* correlation ids minted so far
    problem, \* per call: the document of its last failed attempt
    header,  \* per call: X-Request-Id of the response
    error,   \* per call: the ApiError the client has of it
    logged,  \* the correlation ids of the API's error log, with their calls and attempts
    retried  \* ghost: the statuses after which an attempt was made again

vars == <<call, minted, problem, header, error, logged, retried>>
-----------------------------------------------------------------------------
Init ==
    /\ call = [c \in Calls |-> [state |-> "idle", stage |-> 1, id |-> None, attempts |-> 0]]
    /\ minted = 0 /\ logged = {} /\ retried = {}
    /\ problem = [c \in Calls |-> None] /\ header = [c \in Calls |-> None]
    /\ error = [c \in Calls |-> None]

Attempt(c) == [call EXCEPT ![c] = [state |-> "sent", stage |-> 1, id |-> None,
                                   attempts |-> @.attempts + 1]]

\* request() sends no X-Request-Id.
Send(c) ==
    /\ call[c].state = "idle"
    /\ call' = Attempt(c) /\ header' = [header EXCEPT ![c] = None]
    /\ UNCHANGED <<minted, problem, error, logged, retried>>

\* The request goes on to the next stage; RequestIdInterceptor mints its id, keeps it in
\* the request's headers and echoes it.

Pass(c) ==
    /\ call[c].state = "sent" /\ call[c].stage < Len(Stages)
    /\ IF Stages[call[c].stage] = "interceptors"
       THEN /\ minted' = minted + 1 /\ header' = [header EXCEPT ![c] = minted']
            /\ call' = [call EXCEPT ![c].stage = @ + 1, ![c].id = minted']
       ELSE /\ call' = [call EXCEPT ![c].stage = @ + 1]
            /\ UNCHANGED <<minted, header>>
    /\ UNCHANGED <<problem, error, logged, retried>>

Succeed(c) ==
    /\ call[c].state = "sent" /\ Stages[call[c].stage] = "handler"
    /\ call' = [call EXCEPT ![c].state = "done"] /\ error' = [error EXCEPT ![c] = None]
    /\ UNCHANGED <<minted, problem, header, logged, retried>>

\* The mapping of Prisma's known errors; any other is a 500.
FromPrismaError(class) ==
    CASE class = "P2002" -> [status |-> 409, detail |-> "fixed"]
      [] class = "P2025" -> [status |-> 404, detail |-> "fixed"]
      [] class = "P2003" -> [status |-> 400, detail |-> "fixed"]
      [] class = "P2034" -> [status |-> 409, detail |-> "fixed"]
      [] class = "Prisma" -> [status |-> 500, detail |-> IF Production THEN "fixed" ELSE "own"]

\* Status and detail of the document, by the class of what was thrown.

ToProblem(e) ==
    CASE e.class \in {"Domain", "Http"} -> [status |-> e.status, detail |-> "own"]
      [] e.class = "Zod" -> [status |-> 422, detail |-> "fixed"]
      [] e.class \in {"P2002", "P2025", "P2003", "P2034", "Prisma"} -> FromPrismaError(e.class)
      [] e.class = "PrismaValidation" -> [status |-> 400, detail |-> "fixed"]
      [] OTHER -> [status |-> 500, detail |-> IF Production THEN "fixed" ELSE "own"]

\* An exception of any stage comes to the filter, which names it by the id the request's
\* headers hold by now, logs it and answers.  errors is a list of the fields' messages.
Catch(c, e) ==
    LET id == IF call[c].id = None THEN Unknown ELSE call[c].id IN
    /\ call[c].state = "sent" /\ e \in Raised(Stages[call[c].stage])
    /\ problem' = [problem EXCEPT ![c] =
           [status |-> ToProblem(e).status, detail |-> ToProblem(e).detail,
            correlationId |-> id, fields |-> e.fields,
            errors |-> IF e.fields = {} THEN {} ELSE 0 .. Cardinality(e.fields) - 1]]
    /\ logged' = logged \cup {<<id, c, call[c].attempts>>}
    /\ call' = [call EXCEPT ![c].state = "answered"]
    /\ UNCHANGED <<minted, header, error, retried>>

\* parseProblem of a document: keys of errors are what Object.entries makes of them.
ParseProblem(c) ==
    [status |-> problem[c].status, correlationId |-> problem[c].correlationId,
     fieldErrors |-> problem[c].errors]

\* Of a body that is no document, or that is cut off, the header and the status remain.
Synthetic(c) ==
    [status |-> problem[c].status, correlationId |-> header[c], fieldErrors |-> {}]

\* toApiError leaves an ApiError as it is.
ToApiError(e) == e

Read(c) ==
    /\ call[c].state = "answered"
    /\ call' = [call EXCEPT ![c].state = "failed"]
    /\ \E e \in {ParseProblem(c), Synthetic(c)} : error' = [error EXCEPT ![c] = ToApiError(e)]
    /\ UNCHANGED <<minted, problem, header, logged, retried>>

\* The network fails before an answer (TypeError), or the timer does (AbortError).
Unreached(c) ==
    /\ call[c].state \in {"sent", "answered"}
    /\ call' = [call EXCEPT ![c].state = "failed"]
    /\ problem' = [problem EXCEPT ![c] = None]
    /\ \E s \in {0, 408} :
          error' = [error EXCEPT ![c] = [status |-> s, correlationId |-> None, fieldErrors |-> {}]]
    /\ UNCHANGED <<minted, header, logged, retried>>

IsRetryable(status) == status \in {0, 408, 429} \/ status >= 500

\* The query client tries again twice.
Retry(c) ==
    /\ call[c].state = "failed" /\ IsRetryable(error[c].status) /\ call[c].attempts < 3
    /\ call' = Attempt(c) /\ header' = [header EXCEPT ![c] = None]
    /\ retried' = retried \cup {error[c].status}
    /\ UNCHANGED <<minted, problem, error, logged>>

Next == \E c \in Calls :
    \/ Send(c) \/ Pass(c) \/ Succeed(c) \/ Read(c) \/ Unreached(c) \/ Retry(c)
    \/ \E e \in Raised(Stages[call[c].stage]) : Catch(c, e)

Spec == Init /\ [][Next]_vars
-----------------------------------------------------------------------------
Told(c) == call[c].state = "failed" /\ problem[c] # None

TypeOK ==
    /\ \A c \in Calls : /\ call[c].stage \in 1 .. Len(Stages) /\ call[c].attempts \in 0 .. 3
                        /\ call[c].id \in 1 .. minted \cup {None}
                        /\ call[c].state = "sent" => call[c].id = header[c]

\* "Never leak internal messages for 5xx in production" (http-exception.filter.ts 36).
NeverLeaks ==
    \A c \in Calls : Production /\ problem[c] # None /\ problem[c].status >= 500
                     => problem[c].detail = "fixed"

\* The error a caller sees is the failure the API decided on, whatever became of its body.
SameFailure == \A c \in Calls : Told(c) => error[c].status = problem[c].status

\* "Never retry a rejected credential or a validation failure" (query-client.ts 15), nor
\* any other refusal that a repetition cannot change.
RefusalsAreFinal == retried \cap (400 .. 499) \subseteq {408, 429}

\* The reference a user is shown is that of one entry of the log, for a failure of the
\* pipe or the handler, also when its document was cut off.
HandlerGreppable ==
    \A c \in Calls : Told(c) /\ call[c].stage > 6 =>
        Cardinality({l \in logged : l[1] = error[c].correlationId}) = 1

\* "Always echo the correlation id so a user-reported failure is greppable"
\* (http-exception.filter.ts 37), for every failure that comes with its document.
Greppable ==
    \A c \in Calls : Told(c) /\ error[c].correlationId # None =>
        Cardinality({l \in logged : l[1] = error[c].correlationId}) = 1

\* "Field-level validation messages, keyed by form field name" (api.ts 54).
KeyedByField ==
    \A c \in Calls : Told(c) /\ error[c].fieldErrors # {} =>
        error[c].fieldErrors = problem[c].fields
=============================================================================
