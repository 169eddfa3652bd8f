----------------------------- MODULE AuthClient -----------------------------
(***************************************************************************)
(* The session of the browser applications: the auth store in each tab,    *)
(* what it persists to localStorage, request() with its timer, and the     *)
(* retries of the query client.  The web and the admin application have    *)
(* the same code.  A token is the number of the login that issued it.      *)
(***************************************************************************)
EXTENDS Integers, FiniteSets

CONSTANTS Tabs,
          Calls,      \* queries and mutations
          Mutations,
          Logins,     \* bound: logins
          None         \* no token, no tab

AuthClientAssumption ==
    Mutations \subseteq Calls /\ Logins \in Nat /\ None \notin Nat \cup Tabs

VARIABLES
    open,     \* tabs
    session,  \* the access token in each tab's store
    stored,   \* the access token in localStorage
    issued, live, \* tokens issued so far; those the API accepts
    call,     \* per call: its tab, its state, the token of its attempt, its failures
    applied,  \* ghost: how often the API has carried each call out
    told      \* ghost: the tokens whose rejection each tab has seen

auth == <<open, session, stored, issued, live>>
vars == <<auth, call, applied, told>>

States == {"idle", "sent", "headers", "rejected", "waiting", "done"}
Pending(c) == call[c].state \in {"sent", "headers", "rejected"}
-----------------------------------------------------------------------------
Init ==
    /\ open = {} /\ session = [t \in Tabs |-> None] /\ stored = None
    /\ issued = 0 /\ live = {}
    /\ call = [c \in Calls |-> [tab |-> None, state |-> "idle",
                                token |-> None, failures |-> 0]]
    /\ applied = [c \in Calls |-> 0] /\ told = [t \in Tabs |-> {}]

\* The persisted session is read before anything is shown.
OpenTab(t) ==
    /\ t \notin open /\ open' = open \cup {t}
    /\ session' = [session EXCEPT ![t] = stored]
    /\ UNCHANGED <<stored, issued, live, call, applied, told>>

\* Every set() of the store persists it.
Put(t, token) == session' = [session EXCEPT ![t] = token] /\ stored' = token

Login(t) ==
    /\ t \in open /\ issued < Logins
    /\ issued' = issued + 1 /\ live' = live \cup {issued'}
    /\ Put(t, issued')
    /\ UNCHANGED <<open, call, applied, told>>

Logout(t) ==
    /\ t \in open /\ session[t] # None
    /\ Put(t, None)
    /\ UNCHANGED <<open, issued, live, call, applied, told>>

CloseTab(t) ==
    /\ t \in open /\ open' = open \ {t}
    /\ call' = [c \in Calls |-> IF call[c].tab = t /\ call[c].state # "idle"
                                THEN [call[c] EXCEPT !.state = "done"] ELSE call[c]]
    /\ UNCHANGED <<session, stored, issued, live, applied, told>>

\* On the API's side a token expires, or its session is revoked.
Expire(k) ==
    /\ k \in live /\ live' = live \ {k}
    /\ UNCHANGED <<open, session, stored, issued, call, applied, told>>

\* request() up to fetch: the token is the one the tab has now.

Send(t, c) ==
    /\ t \in open
    /\ call[c].state = "idle" \/ (call[c].state = "waiting" /\ call[c].tab = t)
    /\ call' = [call EXCEPT ![c].tab = t, ![c].state = "sent", ![c].token = session[t]]
    /\ UNCHANGED <<auth, applied, told>>

\* The API carries the call out, or rejects its token.
Serve(c) ==
    /\ call[c].state = "sent"
    /\ IF call[c].token \in live
       THEN /\ call' = [call EXCEPT ![c].state = "headers"]
            /\ applied' = [applied EXCEPT ![c] = @ + 1]
       ELSE /\ call' = [call EXCEPT ![c].state = "rejected"]
            /\ UNCHANGED applied
    /\ UNCHANGED <<auth, told>>

\* The body has come, of an answer that was no error.
Answer(c) ==
    /\ call[c].state = "headers"
    /\ call' = [call EXCEPT ![c].state = "done"]
    /\ UNCHANGED <<auth, applied, told>>

\* A 401 drops the session of the tab; query-client.ts does not retry it.
Unauthorized(c) ==
    LET t == call[c].tab IN
    /\ call[c].state = "rejected"
    /\ Put(t, None)
    /\ told' = [told EXCEPT ![t] = @ \cup ({call[c].token} \ {None})]
    /\ call' = [call EXCEPT ![c].state = "done"]
    /\ UNCHANGED <<open, issued, live, applied>>

\* fault: mutations are retried too.
RetriesAll(c) == call[c].failures < 2

Retries(c) == c \notin Mutations /\ call[c].failures < 2

\* A network failure, a 5xx, or the timer of request(), which runs until the body
\* has come: retried, or handed to the caller.

Fail(c) ==
    /\ Pending(c)
    /\ call' = [call EXCEPT ![c].state = IF Retries(c) THEN "waiting" ELSE "done",
                            ![c].failures = @ + 1]
    /\ UNCHANGED <<auth, applied, told>>

Next ==
    \/ \E t \in Tabs : OpenTab(t) \/ Login(t) \/ Logout(t) \/ CloseTab(t)
    \/ \E t \in Tabs, c \in Calls : Send(t, c)
    \/ \E c \in Calls : Serve(c) \/ Answer(c) \/ Unauthorized(c) \/ Fail(c)
    \/ \E k \in live : Expire(k)

Spec == Init /\ [][Next]_vars

\* The timers of a tab fire; of the network nothing is assumed.
FairSpec ==
    Spec /\ \A c \in Calls : /\ WF_vars(Fail(c))
                             /\ WF_vars(call[c].state = "waiting" /\ \E t \in Tabs : Send(t, c))
-----------------------------------------------------------------------------
TypeOK ==
    /\ \A t \in Tabs : session[t] \in 1 .. issued \cup {None}
    /\ stored \in 1 .. issued \cup {None} /\ live \subseteq 1 .. issued
    /\ \A c \in Calls : /\ call[c].state \in States /\ call[c].failures \in 0 .. 3
                        /\ (Pending(c) \/ call[c].state = "waiting") => call[c].tab \in open

\* "so the route guard can bounce the player to /login rather than looping on 401s"
\* (auth-store.ts 154): a tab that has seen a token rejected never holds it again,
\* whatever the other tabs and a reload do.
NoLoop == \A t \in Tabs : t \in open => session[t] \notin told[t]

\* "Retrying without an idempotency key risks a double debit" (query-client.ts 23):
\* a mutation is carried out at most once, also when its answer is lost.
MutationOnce == \A c \in Mutations : applied[c] <= 1

\* Every call ends, also when headers come and the body never does.
CallsEnd == \A c \in Calls : call[c].state # "idle" ~> call[c].state = "done"

\* "A rejected token means the session is gone - drop it" (auth-store.ts 154): what
\* is dropped is the session whose token was rejected.
DropsRejected ==
    [][\A c \in Calls : Unauthorized(c) => session[call[c].tab] \in {call[c].token, None}]_vars
=============================================================================
