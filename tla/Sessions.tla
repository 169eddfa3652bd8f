------------------------------ MODULE Sessions ------------------------------
(***************************************************************************)
(* The sessions of one account: AuthService.login, refresh, logout,        *)
(* logoutAll and resetPassword, UsersService.selfExclude and revokeSession,*)
(* AdminService.setUserStatus, and JwtStrategy.validate, which every       *)
(* guarded request passes.  They meet on the session rows, on the account  *)
(* row, and in Redis on a tombstone and a cached principal per session.    *)
(* One action is one statement or one Redis command; the set and the del   *)
(* of tombstoneSession are one step, since a validation that comes between *)
(* them reads the row next and finds it revoked.                           *)
(*                                                                         *)
(* A session gets one pair of tokens in its life.  Access tokens expire;   *)
(* refresh tokens outlive the runs.                                        *)
(***************************************************************************)
EXTENDS Integers, FiniteSetTheorems, TLAPS

CONSTANTS Procs,       \* calls that can be open at the same time
          MaxSessions, \* bound: rows of user_sessions
          Ops,         \* the entry points callers use
          MaxFaults    \* bound: calls that die between two statements

Ids == 1 .. MaxSessions
EntryPoints == {"login", "refresh", "request", "logout", "logoutAll",
                "exclude", "reset", "suspend", "restore"}

SessionsAssumption ==
    MaxSessions \in Nat /\ MaxFaults \in Nat /\ Ops \subseteq EntryPoints

VARIABLES
    status,    \* users.status
    password,  \* which password hash the account has: 0, then 1 after a reset
    excluded,  \* the self-exclusion record: none, running, over
    hash,      \* user_sessions.refreshTokenHash of each row
    revoked,   \* rows with a revokedAt
    proof,     \* the password each session was opened with
    children,  \* the sessions a refresh has made of each session
    stones,    \* tombstones in Redis
    covering,  \* those that outlive the access token of their session
    cached,    \* principals cached in Redis
    usable,    \* sessions whose access token a client holds, unexpired
    held,      \* sessions whose refresh token a client holds
    pc,
    goal,      \* the operation a call performs
    sid,       \* the session it presents
    fresh,     \* the session it has created, or 0
    secret,    \* the password a login has verified
    found,     \* the sessions it must tombstone
    ended,     \* sessions some finished call has reported ended
    banned,    \* a finished call has shut the account
    late,      \* a request began after its session ended, or the account was shut
    faults

account == <<status, password, excluded>>
rows    == <<hash, revoked, proof, children>>
redis   == <<stones, covering, cached>>
tokens  == <<usable, held>>
work    == <<goal, sid, fresh, secret, found, late>>
reports == <<ended, banned>>
vars    == <<account, rows, redis, tokens, pc, work, reports, faults>>

Go(p, where) == pc' = [pc EXCEPT ![p] = where]
\* A call that ends leaves nothing behind.
Clear(p) ==
    /\ goal'   = [goal EXCEPT ![p] = "login"]
    /\ sid'    = [sid EXCEPT ![p] = 0]
    /\ fresh'  = [fresh EXCEPT ![p] = 0]
    /\ secret' = [secret EXCEPT ![p] = 0]
    /\ found'  = [found EXCEPT ![p] = {}]
    /\ late'   = [late EXCEPT ![p] = {}]

Move(p, where) ==
    /\ Go(p, where)
    /\ IF where = "idle" THEN Clear(p) ELSE UNCHANGED work

Rows == {s \in Ids : hash[s] # "absent"}
Live == Rows \ revoked

\* refreshTokenHash is unique, and a row is created with a placeholder.
CanCreate(s) ==
    /\ s \notin Rows /\ \A t \in Ids : t < s => t \in Rows
    /\ \A t \in Rows : hash[t] # "placeholder"

Start(p, op, s, aim) ==
    /\ pc[p] = "idle" /\ op \in Ops
    /\ goal'   = [goal EXCEPT ![p] = aim]
    /\ sid'    = [sid EXCEPT ![p] = s]
    /\ secret' = [secret EXCEPT ![p] = IF op = "login" THEN password ELSE 0]
    /\ UNCHANGED <<fresh, found>>

-----------------------------------------------------------------------------
Init ==
    /\ status = "ACTIVE" /\ password = 0 /\ excluded = "none"
    /\ hash = [s \in Ids |-> "absent"] /\ revoked = {}
    /\ proof = [s \in Ids |-> 0] /\ children = [s \in Ids |-> {}]
    /\ stones = {} /\ covering = {} /\ cached = {}
    /\ usable = {} /\ held = {}
    /\ pc = [p \in Procs |-> "idle"] /\ goal = [p \in Procs |-> "login"]
    /\ sid = [p \in Procs |-> 0] /\ fresh = sid /\ secret = sid
    /\ found = [p \in Procs |-> {}]
    /\ ended = {} /\ banned = FALSE /\ late = [p \in Procs |-> {}]
    /\ faults = 0

(* Opening and rotating sessions.                                          *)

\* The account is read, the password verified and the status checked.
Login(p) ==
    /\ Start(p, "login", 0, "login")
    /\ status = "ACTIVE"
    /\ Go(p, "create")
    /\ UNCHANGED <<account, rows, redis, tokens, late, reports, faults>>

\* The session of the token is read.  A revoked one means the token was used
\* before: every session of the account is ended.
Refresh(p, s) ==
    /\ s \in held
    /\ LET reused == s \in revoked \/ hash[s] # "token" IN
       /\ Start(p, "refresh", s, IF reused THEN "reuse" ELSE "refresh")
       /\ Go(p, IF reused THEN "find" ELSE "user")
    /\ UNCHANGED <<account, rows, redis, tokens, late, reports, faults>>

ReadUser(p) ==
    /\ pc[p] = "user"
    /\ Move(p, IF status = "ACTIVE" THEN "rotate" ELSE "idle")
    /\ UNCHANGED <<account, rows, redis, tokens, reports, faults>>

\* startSession's insert, and the transaction of refresh that revokes the old
\* row (by id, whatever its state is by now) and inserts the next one.
CreateSession(p, s) ==
    /\ pc[p] = "create" /\ CanCreate(s)
    /\ hash'  = [hash EXCEPT ![s] = "placeholder"]
    /\ proof' = [proof EXCEPT ![s] = secret[p]]
    /\ fresh' = [fresh EXCEPT ![p] = s]
    /\ Go(p, "sign")
    /\ UNCHANGED <<account, revoked, children, redis, tokens, goal, sid, secret,
                   found, late, reports, faults>>

Rotate(p, s) ==
    /\ pc[p] = "rotate" /\ CanCreate(s)
    /\ revoked'  = revoked \cup {sid[p]}
    /\ hash'     = [hash EXCEPT ![s] = "placeholder"]
    /\ proof'    = [proof EXCEPT ![s] = proof[sid[p]]]
    /\ children' = [children EXCEPT ![sid[p]] = @ \cup {s}]
    /\ fresh'    = [fresh EXCEPT ![p] = s]
    /\ found'    = [found EXCEPT ![p] = {sid[p]}]
    /\ Go(p, "sign")
    /\ UNCHANGED <<account, redis, tokens, goal, sid, secret, late, reports, faults>>

\* P2002 on the placeholder of another session: the call fails.
PlaceholderTaken(p) ==
    /\ pc[p] \in {"create", "rotate"}
    /\ \E t \in Rows : hash[t] = "placeholder"
    /\ Move(p, "idle")
    /\ UNCHANGED <<account, rows, redis, tokens, reports, faults>>

\* The pair is signed and its hash stored, again by id.
StoreHash(p) ==
    /\ pc[p] = "sign"
    /\ hash' = [hash EXCEPT ![fresh[p]] = "token"]
    /\ Move(p, IF goal[p] = "login" THEN "answer" ELSE "bury")
    /\ UNCHANGED <<account, revoked, proof, children, redis, tokens, reports, faults>>

\* The client receives the pair.
Answer(p) ==
    /\ pc[p] = "answer"
    /\ held'   = held \cup {fresh[p]}
    /\ usable' = usable \cup {fresh[p]}
    /\ Move(p, "idle")
    /\ UNCHANGED <<account, rows, redis, reports, faults>>

(* JwtStrategy.validate.                                                   *)

\* A signed, unexpired access token without a tombstone.
BeginRequest(p, s) ==
    /\ s \in usable /\ s \notin stones
    /\ Start(p, "request", s, "request")
    /\ late' = [late EXCEPT ![p] = (IF s \in ended THEN {"session"} ELSE {})
                                   \cup (IF banned THEN {"account"} ELSE {})]
    /\ Go(p, "cache")
    /\ UNCHANGED <<account, rows, redis, tokens, reports, faults>>

ReadCache(p) ==
    /\ pc[p] = "cache"
    /\ Move(p, IF sid[p] \in cached THEN "granted" ELSE "row")
    /\ UNCHANGED <<account, rows, redis, tokens, reports, faults>>

\* fault: revokedAt is not asked for.
ReadRowUnchecked(p) ==
    /\ pc[p] = "row"
    /\ Move(p, "status")
    /\ UNCHANGED <<account, rows, redis, tokens, reports, faults>>

ReadRow(p) ==
    /\ pc[p] = "row"
    /\ Move(p, IF sid[p] \in revoked THEN "idle" ELSE "status")
    /\ UNCHANGED <<account, rows, redis, tokens, reports, faults>>

ReadStatus(p) ==
    /\ pc[p] = "status"
    /\ Move(p, IF status = "ACTIVE" THEN "fill" ELSE "idle")
    /\ UNCHANGED <<account, rows, redis, tokens, reports, faults>>

FillCache(p) ==
    /\ pc[p] = "fill"
    /\ cached' = cached \cup {sid[p]}
    /\ Move(p, "granted")
    /\ UNCHANGED <<account, rows, stones, covering, tokens, reports, faults>>

\* The handler of any other request.
Serve(p) ==
    /\ pc[p] = "granted"
    /\ Move(p, "idle")
    /\ UNCHANGED <<account, rows, redis, tokens, reports, faults>>

(* Ending sessions.                                                        *)

\* logout, and revokeSession of any session of the account: a row that is
\* revoked already is left alone, and its tombstone is written all the same.
Logout(p, s) ==
    /\ pc[p] = "granted" /\ "logout" \in Ops
    /\ s \in Rows
    /\ revoked' = revoked \cup {s}
    /\ goal'    = [goal EXCEPT ![p] = "logout"]
    /\ found'   = [found EXCEPT ![p] = {s}]
    /\ Go(p, "bury")
    /\ UNCHANGED <<account, hash, proof, children, redis, tokens, sid, fresh, secret,
                   late, reports, faults>>

LogoutAll(p) ==
    /\ pc[p] = "granted" /\ "logoutAll" \in Ops
    /\ goal' = [goal EXCEPT ![p] = "logoutAll"]
    /\ Go(p, "find")
    /\ UNCHANGED <<account, rows, redis, tokens, sid, fresh, secret, found, late, reports, faults>>

\* The transaction of selfExclude.
SelfExclude(p) ==
    /\ pc[p] = "granted" /\ "exclude" \in Ops
    /\ excluded' = "running" /\ status' = "SELF_EXCLUDED"
    /\ goal' = [goal EXCEPT ![p] = "exclude"]
    /\ Go(p, "find")
    /\ UNCHANGED <<password, rows, redis, tokens, sid, fresh, secret, found, late, reports, faults>>

\* The code of the reset is consumed and the new hash stored (module Otp has
\* the code; here it is good once).
ResetPassword(p) ==
    /\ password = 0
    /\ Start(p, "reset", 0, "reset")
    /\ password' = 1
    /\ Go(p, "find")
    /\ UNCHANGED <<status, excluded, rows, redis, tokens, late, reports, faults>>

\* setUserStatus of an administrator, to SUSPENDED and back to ACTIVE.
Suspend(p) ==
    /\ Start(p, "suspend", 0, "suspend")
    /\ status' = "SUSPENDED"
    /\ Go(p, "close")
    /\ UNCHANGED <<password, excluded, rows, redis, tokens, late, reports, faults>>

Restore ==
    /\ "restore" \in Ops
    /\ status' = "ACTIVE" /\ banned' = FALSE
    /\ UNCHANGED <<password, excluded, rows, redis, tokens, pc, work, ended, faults>>

\* It revokes the rows and leaves Redis alone.
CloseRows(p) ==
    /\ pc[p] = "close"
    /\ revoked' = revoked \cup Rows
    /\ banned'  = (status # "ACTIVE")
    /\ Move(p, "idle")
    /\ UNCHANGED <<account, hash, proof, children, redis, tokens, ended, faults>>

\* What the answer of the call claims to have ended.
Report(p, S) ==
    /\ ended'  = IF goal[p] = "refresh" THEN ended ELSE ended \cup S
    /\ banned' = (banned \/ (goal[p] = "exclude" /\ status # "ACTIVE"))

\* revokeAllSessions: the live rows are read, and it is done if there are none;
FindLive(p) ==
    /\ pc[p] = "find"
    /\ IF Live = {}
       THEN Move(p, "idle") /\ Report(p, {})
       ELSE /\ Go(p, "revoke")
            /\ found' = [found EXCEPT ![p] = Live]
            /\ UNCHANGED <<goal, sid, fresh, secret, late, reports>>
    /\ UNCHANGED <<account, rows, redis, tokens, faults>>

\* the rows that are live by now are revoked;
RevokeLive(p) ==
    /\ pc[p] = "revoke"
    /\ revoked' = revoked \cup Rows
    /\ Move(p, "bury")
    /\ UNCHANGED <<account, hash, proof, children, redis, tokens, reports, faults>>

\* fault: the access tokens outlive their tombstones.
BuryShort(p) ==
    /\ pc[p] = "bury"
    /\ stones' = stones \cup found[p] /\ cached' = cached \ found[p]
    /\ Report(p, found[p])
    /\ Move(p, IF goal[p] = "refresh" THEN "answer" ELSE "idle")
    /\ UNCHANGED <<account, rows, covering, tokens, faults>>
\* and the ones read before are tombstoned, which ends the call.

Bury(p) ==
    /\ pc[p] = "bury"
    /\ stones'   = stones \cup found[p]
    /\ covering' = covering \cup {s \in found[p] : hash[s] = "token"}
    /\ cached'   = cached \ found[p]
    /\ Report(p, found[p])
    /\ Move(p, IF goal[p] = "refresh" THEN "answer" ELSE "idle")
    /\ UNCHANGED <<account, rows, tokens, faults>>

(* Time, and the end of a process.                                         *)

\* The principal cache lasts 30 s.
Evict(s) ==
    /\ s \in cached
    /\ cached' = cached \ {s}
    /\ UNCHANGED <<account, rows, stones, covering, tokens, pc, work, reports, faults>>

AccessExpires(s) ==
    /\ s \in usable
    /\ usable' = usable \ {s}
    /\ UNCHANGED <<account, rows, redis, held, pc, work, reports, faults>>

\* accessTtl + 60: after the token, unless the token was signed after it.
StoneExpires(s) ==
    /\ s \in stones /\ (s \in covering => s \notin usable)
    /\ stones' = stones \ {s} /\ covering' = covering \ {s}
    /\ UNCHANGED <<account, rows, cached, tokens, pc, work, reports, faults>>

ExclusionEnds ==
    /\ excluded = "running" /\ excluded' = "over"
    /\ UNCHANGED <<status, password, rows, redis, tokens, pc, work, reports, faults>>

Crash(p) ==
    /\ pc[p] # "idle" /\ faults < MaxFaults
    /\ faults' = faults + 1
    /\ Move(p, "idle")
    /\ UNCHANGED <<account, rows, redis, tokens, reports>>

Continue(p) ==
    \/ ReadUser(p) \/ PlaceholderTaken(p) \/ StoreHash(p) \/ Answer(p)
    \/ \E s \in Ids : CreateSession(p, s) \/ Rotate(p, s)
    \/ ReadCache(p) \/ ReadRow(p) \/ ReadStatus(p) \/ FillCache(p) \/ Serve(p)
    \/ CloseRows(p) \/ FindLive(p) \/ RevokeLive(p) \/ Bury(p)

Call(p) ==
    \/ Login(p) \/ LogoutAll(p) \/ SelfExclude(p)
    \/ ResetPassword(p) \/ Suspend(p)
    \/ \E s \in Ids : Refresh(p, s) \/ BeginRequest(p, s) \/ Logout(p, s)

Next ==
    \/ \E p \in Procs : Call(p) \/ Continue(p) \/ Crash(p)
    \/ \E s \in Ids : Evict(s) \/ AccessExpires(s) \/ StoneExpires(s)
    \/ Restore \/ ExclusionEnds

Spec == Init /\ [][Next]_vars

\* A call that was started goes on, and a cached principal is forgotten; nothing
\* is assumed of the access tokens, which would end every request by expiring.
FairSpec ==
    /\ Spec
    /\ \A p \in Procs : WF_vars(Continue(p))
    /\ \A s \in Ids : WF_vars(Evict(s))
    /\ WF_vars(ExclusionEnds)
-----------------------------------------------------------------------------
TypeOK ==
    /\ status \in {"ACTIVE", "SUSPENDED", "SELF_EXCLUDED"}
    /\ password \in {0, 1} /\ excluded \in {"none", "running", "over"}
    /\ hash \in [Ids -> {"absent", "placeholder", "token"}]
    /\ proof \in [Ids -> {0, 1}] /\ children \in [Ids -> SUBSET Ids]
    /\ revoked \subseteq Rows /\ held \subseteq Rows /\ usable \subseteq held
    /\ stones \subseteq Ids /\ covering \subseteq stones /\ cached \subseteq Ids
    /\ pc \in [Procs -> {"idle", "create", "user", "rotate", "sign", "answer", "cache",
                         "row", "status", "fill", "granted", "find", "revoke", "bury",
                         "close"}]
    /\ goal \in [Procs -> EntryPoints \cup {"reuse"}]
    /\ sid \in [Procs -> Ids \cup {0}] /\ fresh \in [Procs -> Ids \cup {0}]
    /\ secret \in [Procs -> {0, 1}] /\ found \in [Procs -> SUBSET Ids]
    /\ ended \subseteq Ids /\ banned \in BOOLEAN
    /\ late \in [Procs -> SUBSET {"session", "account"}]
    /\ faults \in 0 .. MaxFaults

\* A tombstone refuses every request of its session for as long as the token
\* lives, so none may be written for a session that is not revoked: a caller
\* would be signed out of a live session (tombstoneSession 710-719).
TombstonesTrue == stones \subseteq revoked

\* Once a call has answered that a session is ended, no request that begins
\* later is served with it, whatever a validation in flight caches after the
\* principal was deleted and whenever Redis forgets the tombstone.
SignedOutStaysOut == \A p \in Procs : pc[p] = "granted" => "session" \notin late[p]

\* Once a self-exclusion or a suspension has answered, no request of the account
\* that begins later is served (revokeAllSessions 677-682: "must also be able to
\* cut a user off immediately").
CutOffAtOnce == \A p \in Procs : pc[p] = "granted" => "account" \notin late[p]

\* A revoked session, tombstoned or not, is served only until the cached
\* principals are forgotten (validate 71-127).
RevokedComesOut ==
    \A s \in Ids : (s \in revoked) ~>
        [](s \in revoked /\ \A p \in Procs : ~(pc[p] = "granted" /\ sid[p] = s))

\* So is an account that stays shut, with all the sessions that calls in flight
\* open after it was shut.
ShutAccountComesOut ==
    <>[](status # "ACTIVE") => <>[](\A p \in Procs : pc[p] # "granted")

\* "A stolen token is usable at most once" (refresh 378-386): a refresh token
\* opens at most one session.
TokenUsedOnce == \A s \in Ids : Cardinality(children[s]) <= 1

\* "Placeholder until the pair is signed; overwritten below in the same flow"
\* (437): nobody leaves a placeholder, which is unique, behind.
PlaceholderOverwritten ==
    \A s \in Ids : hash[s] = "placeholder" => \E p \in Procs : pc[p] = "sign" /\ fresh[p] = s

\* "All sessions have been signed out - sign in with the new password"
\* (resetPassword 581-583, 619): after a reset no session opened with the old one lives.
OldPasswordOut ==
    (password = 1 /\ \A p \in Procs : goal[p] # "reset")
        => \A s \in Live : proof[s] = 1

\* A running self-exclusion "cannot be reversed early by the player, by support,
\* or by an administrator" (RESPONSIBLE-GAMING.md 107-108).
ExclusionKept == excluded = "running" => status # "ACTIVE"

\* It "blocks login until the exclusion period ends" (RESPONSIBLE-GAMING.md 104).
ExclusionLifts == (excluded = "over") ~> (status = "ACTIVE")
-----------------------------------------------------------------------------
(* Proofs, for any number of calls, sessions and deaths.                   *)

\* A pair is given out once, by the one call that has created its session and
\* stored its hash; a request is made with a pair that was given out.
Pairs ==
    /\ \A p \in Procs :
          /\ fresh[p] # 0 => fresh[p] \in Rows \ held
          /\ \A q \in Procs : fresh[p] # 0 /\ fresh[q] = fresh[p] => q = p
          /\ sid[p] # 0 => sid[p] \in held
    /\ \A s \in held : hash[s] = "token"
    /\ cached \subseteq held

\* What a call has by the time it comes to a statement.
Flow ==
    \A p \in Procs :
        /\ pc[p] = "idle" => late[p] = {}
        /\ pc[p] \in {"user", "rotate"} => goal[p] = "refresh"
        /\ pc[p] \in {"user", "rotate", "cache", "row", "status", "fill"} => sid[p] # 0
        /\ pc[p] \in {"find", "revoke"} => goal[p] # "refresh"
        /\ pc[p] = "sign" => fresh[p] # 0
        /\ pc[p] = "answer" \/ (pc[p] = "bury" /\ goal[p] = "refresh") =>
              fresh[p] # 0 /\ hash[fresh[p]] = "token"

\* What a call is going to tombstone is revoked, from the moment its rows are.
Graves ==
    /\ TombstonesTrue /\ ended \subseteq revoked
    /\ \A p \in Procs : /\ found[p] \subseteq Rows
                        /\ pc[p] # "revoke" => found[p] \subseteq revoked

\* Nobody will be served with s any more: it is revoked, and no request of it has
\* passed the row.
Sealed(s) ==
    /\ s \in revoked \ cached
    /\ \A p \in Procs : sid[p] = s => pc[p] \notin {"status", "fill", "granted"}

\* A session that was ended while its pair was out has a tombstone as long as its
\* access token lives; one that was ended before is sealed.
Out ==
    /\ \A s \in ended \cap held : s \in usable => s \in covering \/ Sealed(s)
    /\ \A p \in Procs : "session" \in late[p] => Sealed(sid[p])

Inv == TypeOK /\ Pairs /\ Flow /\ Graves /\ Out

\* Each step keeps the types: a row that is revoked or given out exists.
LEMMA TypeStep ==
    ASSUME SessionsAssumption, TypeOK, Pairs, Flow, [Next]_vars PROVE TypeOK'
<1>. USE DEF TypeOK, Rows, account, rows, redis, tokens, work, reports
<1>1. ASSUME NEW p \in Procs, Login(p) PROVE TypeOK'
  BY <1>1 DEF Login, Go, Start, Pairs, Flow, EntryPoints, SessionsAssumption
<1>2. ASSUME NEW p \in Procs, LogoutAll(p) PROVE TypeOK'
  BY <1>2 DEF LogoutAll, Go, Pairs, Flow, EntryPoints, SessionsAssumption
<1>3. ASSUME NEW p \in Procs, SelfExclude(p) PROVE TypeOK'
  BY <1>3 DEF SelfExclude, Go, Pairs, Flow, EntryPoints, SessionsAssumption
<1>4. ASSUME NEW p \in Procs, ResetPassword(p) PROVE TypeOK'
  BY <1>4 DEF ResetPassword, Go, Start, Pairs, Flow, EntryPoints, SessionsAssumption
<1>5. ASSUME NEW p \in Procs, Suspend(p) PROVE TypeOK'
  BY <1>5 DEF Suspend, Go, Start, Pairs, Flow, EntryPoints, SessionsAssumption
<1>6. ASSUME NEW p \in Procs, ReadUser(p) PROVE TypeOK'
  <2>1. /\ Move(p, "rotate") \/ Move(p, "idle")
        /\ UNCHANGED <<account, rows, redis, tokens, reports, faults>>
    BY <1>6 DEF ReadUser
  <2>. QED
    BY <2>1 DEF Move, Go, Clear, EntryPoints
<1>7. ASSUME NEW p \in Procs, PlaceholderTaken(p) PROVE TypeOK'
  BY <1>7 DEF PlaceholderTaken, Move, Go, Clear, Pairs, Flow, EntryPoints,
     SessionsAssumption
<1>8. ASSUME NEW p \in Procs, StoreHash(p) PROVE TypeOK'
  BY <1>8 DEF StoreHash, Move, Go, Clear, Pairs, Flow, EntryPoints,
     SessionsAssumption
<1>9. ASSUME NEW p \in Procs, Answer(p) PROVE TypeOK'
  BY <1>9 DEF Answer, Move, Go, Clear, Pairs, Flow, EntryPoints, SessionsAssumption
<1>10. ASSUME NEW p \in Procs, ReadCache(p) PROVE TypeOK'
  BY <1>10 DEF ReadCache, Move, Go, Clear, Pairs, Flow, EntryPoints,
     SessionsAssumption
<1>11. ASSUME NEW p \in Procs, ReadRow(p) PROVE TypeOK'
  <2>1. /\ Move(p, "status") \/ Move(p, "idle")
        /\ UNCHANGED <<account, rows, redis, tokens, reports, faults>>
    BY <1>11 DEF ReadRow
  <2>. QED
    BY <2>1 DEF Move, Go, Clear, EntryPoints
<1>12. ASSUME NEW p \in Procs, ReadStatus(p) PROVE TypeOK'
  <2>1. /\ Move(p, "fill") \/ Move(p, "idle")
        /\ UNCHANGED <<account, rows, redis, tokens, reports, faults>>
    BY <1>12 DEF ReadStatus
  <2>. QED
    BY <2>1 DEF Move, Go, Clear, EntryPoints
<1>13. ASSUME NEW p \in Procs, FillCache(p) PROVE TypeOK'
  BY <1>13 DEF FillCache, Move, Go, Clear, Pairs, Flow, EntryPoints,
     SessionsAssumption
<1>14. ASSUME NEW p \in Procs, Serve(p) PROVE TypeOK'
  BY <1>14 DEF Serve, Move, Go, Clear, Pairs, Flow, EntryPoints, SessionsAssumption
<1>15. ASSUME NEW p \in Procs, CloseRows(p) PROVE TypeOK'
  BY <1>15 DEF CloseRows, Move, Go, Clear, Pairs, Flow, EntryPoints,
     SessionsAssumption
<1>16. ASSUME NEW p \in Procs, FindLive(p) PROVE TypeOK'
  <2>1. CASE Live = {}
    <3>1. Move(p, "idle") /\ Report(p, {}) /\ UNCHANGED <<account, rows, redis, tokens, faults>>
      BY <1>16, <2>1 DEF FindLive
    <3>. QED
      BY <3>1 DEF Move, Go, Clear, Report, EntryPoints
  <2>2. CASE Live # {}
    BY <1>16, <2>2 DEF FindLive, Go, Live
  <2>. QED
    BY <2>1, <2>2
<1>17. ASSUME NEW p \in Procs, RevokeLive(p) PROVE TypeOK'
  BY <1>17 DEF RevokeLive, Move, Go, Clear, Pairs, Flow, EntryPoints,
     SessionsAssumption
<1>18. ASSUME NEW p \in Procs, Bury(p) PROVE TypeOK'
  BY <1>18 DEF Bury, Move, Go, Clear, Report, Pairs, Flow, EntryPoints,
     SessionsAssumption
<1>19. ASSUME NEW p \in Procs, Crash(p) PROVE TypeOK'
  BY <1>19 DEF Crash, Move, Go, Clear, Pairs, Flow, EntryPoints, SessionsAssumption
<1>20. ASSUME NEW p \in Procs, NEW s \in Ids, Refresh(p, s) PROVE TypeOK'
  BY <1>20 DEF Refresh, Go, Start, Pairs, Flow, EntryPoints, SessionsAssumption
<1>21. ASSUME NEW p \in Procs, NEW s \in Ids, BeginRequest(p, s) PROVE TypeOK'
  BY <1>21 DEF BeginRequest, Go, Start, Pairs, Flow, EntryPoints, SessionsAssumption
<1>22. ASSUME NEW p \in Procs, NEW s \in Ids, Logout(p, s) PROVE TypeOK'
  BY <1>22 DEF Logout, Go, Pairs, Flow, EntryPoints, SessionsAssumption
<1>23. ASSUME NEW p \in Procs, NEW s \in Ids, CreateSession(p, s) PROVE TypeOK'
  BY <1>23 DEF CreateSession, Go, CanCreate, Pairs, Flow, EntryPoints,
     SessionsAssumption
<1>24. ASSUME NEW p \in Procs, NEW s \in Ids, Rotate(p, s) PROVE TypeOK'
  BY <1>24 DEF Rotate, Go, CanCreate, Pairs, Flow, EntryPoints, SessionsAssumption
<1>25. ASSUME NEW s \in Ids, Evict(s) PROVE TypeOK'
  BY <1>25 DEF Evict, Pairs, Flow, EntryPoints, SessionsAssumption
<1>26. ASSUME NEW s \in Ids, AccessExpires(s) PROVE TypeOK'
  BY <1>26 DEF AccessExpires, Pairs, Flow, EntryPoints, SessionsAssumption
<1>27. ASSUME NEW s \in Ids, StoneExpires(s) PROVE TypeOK'
  BY <1>27 DEF StoneExpires, Pairs, Flow, EntryPoints, SessionsAssumption
<1>28. CASE Restore
  BY <1>28 DEF Restore, Pairs, Flow, EntryPoints, SessionsAssumption
<1>29. CASE ExclusionEnds
  BY <1>29 DEF ExclusionEnds, Pairs, Flow, EntryPoints, SessionsAssumption
<1>30. CASE UNCHANGED vars
  BY <1>30 DEF vars, Pairs, Flow, EntryPoints, SessionsAssumption
<1>. QED
  BY <1>1, <1>2, <1>3, <1>4, <1>5, <1>6, <1>7, <1>8, <1>9, <1>10, <1>11, <1>12,
     <1>13, <1>14, <1>15, <1>16, <1>17, <1>18, <1>19, <1>20, <1>21, <1>22, <1>23,
     <1>24, <1>25, <1>26, <1>27, <1>28, <1>29, <1>30 DEF Next, Call, Continue

\* Each step gives a pair out once.
LEMMA PairsStep ==
    ASSUME SessionsAssumption, TypeOK, Pairs, Flow, [Next]_vars PROVE Pairs'
<1>. USE DEF Pairs, Rows, account, rows, redis, tokens, work, reports
<1>1. ASSUME NEW p \in Procs, Login(p) PROVE Pairs'
  BY <1>1 DEF Login, Go, Start, TypeOK, Flow
<1>2. ASSUME NEW p \in Procs, LogoutAll(p) PROVE Pairs'
  BY <1>2 DEF LogoutAll, Go, TypeOK, Flow
<1>3. ASSUME NEW p \in Procs, SelfExclude(p) PROVE Pairs'
  BY <1>3 DEF SelfExclude, Go, TypeOK, Flow
<1>4. ASSUME NEW p \in Procs, ResetPassword(p) PROVE Pairs'
  BY <1>4 DEF ResetPassword, Go, Start, TypeOK, Flow
<1>5. ASSUME NEW p \in Procs, Suspend(p) PROVE Pairs'
  BY <1>5 DEF Suspend, Go, Start, TypeOK, Flow
<1>6. ASSUME NEW p \in Procs, ReadUser(p) PROVE Pairs'
  BY <1>6 DEF ReadUser, Move, Go, Clear, TypeOK, Flow
<1>7. ASSUME NEW p \in Procs, PlaceholderTaken(p) PROVE Pairs'
  BY <1>7 DEF PlaceholderTaken, Move, Go, Clear, TypeOK, Flow
<1>8. ASSUME NEW p \in Procs, StoreHash(p) PROVE Pairs'
  BY <1>8 DEF StoreHash, Move, Go, Clear, TypeOK, Flow
<1>9. ASSUME NEW p \in Procs, Answer(p) PROVE Pairs'
  BY <1>9 DEF Answer, Move, Go, Clear, TypeOK, Flow
<1>10. ASSUME NEW p \in Procs, ReadCache(p) PROVE Pairs'
  BY <1>10 DEF ReadCache, Move, Go, Clear, TypeOK, Flow
<1>11. ASSUME NEW p \in Procs, ReadRow(p) PROVE Pairs'
  BY <1>11 DEF ReadRow, Move, Go, Clear, TypeOK, Flow
<1>12. ASSUME NEW p \in Procs, ReadStatus(p) PROVE Pairs'
  BY <1>12 DEF ReadStatus, Move, Go, Clear, TypeOK, Flow
<1>13. ASSUME NEW p \in Procs, FillCache(p) PROVE Pairs'
  BY <1>13 DEF FillCache, Move, Go, Clear, TypeOK, Flow
<1>14. ASSUME NEW p \in Procs, Serve(p) PROVE Pairs'
  BY <1>14 DEF Serve, Move, Go, Clear, TypeOK, Flow
<1>15. ASSUME NEW p \in Procs, CloseRows(p) PROVE Pairs'
  BY <1>15 DEF CloseRows, Move, Go, Clear, TypeOK, Flow
<1>16. ASSUME NEW p \in Procs, FindLive(p) PROVE Pairs'
  BY <1>16 DEF FindLive, Move, Go, Clear, Live, Report, TypeOK, Flow
<1>17. ASSUME NEW p \in Procs, RevokeLive(p) PROVE Pairs'
  BY <1>17 DEF RevokeLive, Move, Go, Clear, TypeOK, Flow
<1>18. ASSUME NEW p \in Procs, Bury(p) PROVE Pairs'
  BY <1>18 DEF Bury, Move, Go, Clear, Report, TypeOK, Flow
<1>19. ASSUME NEW p \in Procs, Crash(p) PROVE Pairs'
  BY <1>19 DEF Crash, Move, Go, Clear, TypeOK, Flow
<1>20. ASSUME NEW p \in Procs, NEW s \in Ids, Refresh(p, s) PROVE Pairs'
  BY <1>20 DEF Refresh, Go, Start, TypeOK, Flow
<1>21. ASSUME NEW p \in Procs, NEW s \in Ids, BeginRequest(p, s) PROVE Pairs'
  BY <1>21 DEF BeginRequest, Go, Start, TypeOK, Flow
<1>22. ASSUME NEW p \in Procs, NEW s \in Ids, Logout(p, s) PROVE Pairs'
  BY <1>22 DEF Logout, Go, TypeOK, Flow
<1>23. ASSUME NEW p \in Procs, NEW s \in Ids, CreateSession(p, s) PROVE Pairs'
  BY <1>23 DEF CreateSession, Go, CanCreate, TypeOK, Flow
<1>24. ASSUME NEW p \in Procs, NEW s \in Ids, Rotate(p, s) PROVE Pairs'
  BY <1>24 DEF Rotate, Go, CanCreate, TypeOK, Flow
<1>25. ASSUME NEW s \in Ids, Evict(s) PROVE Pairs'
  BY <1>25 DEF Evict, TypeOK, Flow
<1>26. ASSUME NEW s \in Ids, AccessExpires(s) PROVE Pairs'
  BY <1>26 DEF AccessExpires, TypeOK, Flow
<1>27. ASSUME NEW s \in Ids, StoneExpires(s) PROVE Pairs'
  BY <1>27 DEF StoneExpires, TypeOK, Flow
<1>28. CASE Restore
  BY <1>28 DEF Restore, TypeOK, Flow
<1>29. CASE ExclusionEnds
  BY <1>29 DEF ExclusionEnds, TypeOK, Flow
<1>30. CASE UNCHANGED vars
  BY <1>30 DEF vars, TypeOK, Flow
<1>. QED
  BY <1>1, <1>2, <1>3, <1>4, <1>5, <1>6, <1>7, <1>8, <1>9, <1>10, <1>11, <1>12,
     <1>13, <1>14, <1>15, <1>16, <1>17, <1>18, <1>19, <1>20, <1>21, <1>22, <1>23,
     <1>24, <1>25, <1>26, <1>27, <1>28, <1>29, <1>30 DEF Next, Call, Continue

\* Each step leads to a statement whose call has what it needs.
LEMMA FlowStep ==
    ASSUME SessionsAssumption, TypeOK, Pairs, Flow, [Next]_vars PROVE Flow'
<1>. USE DEF Flow, Rows, account, rows, redis, tokens, work, reports
<1>1. ASSUME NEW p \in Procs, Login(p) PROVE Flow'
  BY <1>1 DEF Login, Go, Start, TypeOK, Pairs, Ids
<1>2. ASSUME NEW p \in Procs, LogoutAll(p) PROVE Flow'
  BY <1>2 DEF LogoutAll, Go, TypeOK, Pairs, Ids
<1>3. ASSUME NEW p \in Procs, SelfExclude(p) PROVE Flow'
  BY <1>3 DEF SelfExclude, Go, TypeOK, Pairs, Ids
<1>4. ASSUME NEW p \in Procs, ResetPassword(p) PROVE Flow'
  BY <1>4 DEF ResetPassword, Go, Start, TypeOK, Pairs, Ids
<1>5. ASSUME NEW p \in Procs, Suspend(p) PROVE Flow'
  BY <1>5 DEF Suspend, Go, Start, TypeOK, Pairs, Ids
<1>6. ASSUME NEW p \in Procs, ReadUser(p) PROVE Flow'
  BY <1>6 DEF ReadUser, Move, Go, Clear, TypeOK, Pairs, Ids
<1>7. ASSUME NEW p \in Procs, PlaceholderTaken(p) PROVE Flow'
  BY <1>7 DEF PlaceholderTaken, Move, Go, Clear, TypeOK, Pairs, Ids
<1>8. ASSUME NEW p \in Procs, StoreHash(p) PROVE Flow'
  BY <1>8 DEF StoreHash, Move, Go, Clear, TypeOK, Pairs, Ids
<1>9. ASSUME NEW p \in Procs, Answer(p) PROVE Flow'
  BY <1>9 DEF Answer, Move, Go, Clear, TypeOK, Pairs, Ids
<1>10. ASSUME NEW p \in Procs, ReadCache(p) PROVE Flow'
  BY <1>10 DEF ReadCache, Move, Go, Clear, TypeOK, Pairs, Ids
<1>11. ASSUME NEW p \in Procs, ReadRow(p) PROVE Flow'
  BY <1>11 DEF ReadRow, Move, Go, Clear, TypeOK, Pairs, Ids
<1>12. ASSUME NEW p \in Procs, ReadStatus(p) PROVE Flow'
  BY <1>12 DEF ReadStatus, Move, Go, Clear, TypeOK, Pairs, Ids
<1>13. ASSUME NEW p \in Procs, FillCache(p) PROVE Flow'
  BY <1>13 DEF FillCache, Move, Go, Clear, TypeOK, Pairs, Ids
<1>14. ASSUME NEW p \in Procs, Serve(p) PROVE Flow'
  BY <1>14 DEF Serve, Move, Go, Clear, TypeOK, Pairs, Ids
<1>15. ASSUME NEW p \in Procs, CloseRows(p) PROVE Flow'
  BY <1>15 DEF CloseRows, Move, Go, Clear, TypeOK, Pairs, Ids
<1>16. ASSUME NEW p \in Procs, FindLive(p) PROVE Flow'
  BY <1>16 DEF FindLive, Move, Go, Clear, Live, Report, TypeOK, Pairs, Ids
<1>17. ASSUME NEW p \in Procs, RevokeLive(p) PROVE Flow'
  BY <1>17 DEF RevokeLive, Move, Go, Clear, TypeOK, Pairs, Ids
<1>18. ASSUME NEW p \in Procs, Bury(p) PROVE Flow'
  BY <1>18 DEF Bury, Move, Go, Clear, Report, TypeOK, Pairs, Ids
<1>19. ASSUME NEW p \in Procs, Crash(p) PROVE Flow'
  BY <1>19 DEF Crash, Move, Go, Clear, TypeOK, Pairs, Ids
<1>20. ASSUME NEW p \in Procs, NEW s \in Ids, Refresh(p, s) PROVE Flow'
  BY <1>20 DEF Refresh, Go, Start, TypeOK, Pairs, Ids
<1>21. ASSUME NEW p \in Procs, NEW s \in Ids, BeginRequest(p, s) PROVE Flow'
  BY <1>21 DEF BeginRequest, Go, Start, TypeOK, Pairs, Ids
<1>22. ASSUME NEW p \in Procs, NEW s \in Ids, Logout(p, s) PROVE Flow'
  BY <1>22 DEF Logout, Go, TypeOK, Pairs, Ids
<1>23. ASSUME NEW p \in Procs, NEW s \in Ids, CreateSession(p, s) PROVE Flow'
  BY <1>23 DEF CreateSession, Go, CanCreate, TypeOK, Pairs, Ids
<1>24. ASSUME NEW p \in Procs, NEW s \in Ids, Rotate(p, s) PROVE Flow'
  BY <1>24 DEF Rotate, Go, CanCreate, TypeOK, Pairs, Ids
<1>25. ASSUME NEW s \in Ids, Evict(s) PROVE Flow'
  BY <1>25 DEF Evict, TypeOK, Pairs, Ids
<1>26. ASSUME NEW s \in Ids, AccessExpires(s) PROVE Flow'
  BY <1>26 DEF AccessExpires, TypeOK, Pairs, Ids
<1>27. ASSUME NEW s \in Ids, StoneExpires(s) PROVE Flow'
  BY <1>27 DEF StoneExpires, TypeOK, Pairs, Ids
<1>28. CASE Restore
  BY <1>28 DEF Restore, TypeOK, Pairs, Ids
<1>29. CASE ExclusionEnds
  BY <1>29 DEF ExclusionEnds, TypeOK, Pairs, Ids
<1>30. CASE UNCHANGED vars
  BY <1>30 DEF vars, TypeOK, Pairs, Ids
<1>. QED
  BY <1>1, <1>2, <1>3, <1>4, <1>5, <1>6, <1>7, <1>8, <1>9, <1>10, <1>11, <1>12,
     <1>13, <1>14, <1>15, <1>16, <1>17, <1>18, <1>19, <1>20, <1>21, <1>22, <1>23,
     <1>24, <1>25, <1>26, <1>27, <1>28, <1>29, <1>30 DEF Next, Call, Continue

\* Each step buries what is revoked, and nothing else.
LEMMA GravesStep ==
    ASSUME SessionsAssumption, TypeOK, Pairs, Flow, Graves, [Next]_vars PROVE Graves'
<1>. USE DEF Graves, TombstonesTrue, Rows, account, rows, redis, tokens, work, reports
<1>1. ASSUME NEW p \in Procs, Login(p) PROVE Graves'
  BY <1>1 DEF Login, Go, Start, TypeOK
<1>2. ASSUME NEW p \in Procs, LogoutAll(p) PROVE Graves'
  BY <1>2 DEF LogoutAll, Go, TypeOK
<1>3. ASSUME NEW p \in Procs, SelfExclude(p) PROVE Graves'
  BY <1>3 DEF SelfExclude, Go, TypeOK
<1>4. ASSUME NEW p \in Procs, ResetPassword(p) PROVE Graves'
  BY <1>4 DEF ResetPassword, Go, Start, TypeOK
<1>5. ASSUME NEW p \in Procs, Suspend(p) PROVE Graves'
  BY <1>5 DEF Suspend, Go, Start, TypeOK
<1>6. ASSUME NEW p \in Procs, ReadUser(p) PROVE Graves'
  BY <1>6 DEF ReadUser, Move, Go, Clear, TypeOK
<1>7. ASSUME NEW p \in Procs, PlaceholderTaken(p) PROVE Graves'
  BY <1>7 DEF PlaceholderTaken, Move, Go, Clear, TypeOK
<1>8. ASSUME NEW p \in Procs, StoreHash(p) PROVE Graves'
  BY <1>8 DEF StoreHash, Move, Go, Clear, TypeOK
<1>9. ASSUME NEW p \in Procs, Answer(p) PROVE Graves'
  BY <1>9 DEF Answer, Move, Go, Clear, TypeOK
<1>10. ASSUME NEW p \in Procs, ReadCache(p) PROVE Graves'
  BY <1>10 DEF ReadCache, Move, Go, Clear, TypeOK
<1>11. ASSUME NEW p \in Procs, ReadRow(p) PROVE Graves'
  BY <1>11 DEF ReadRow, Move, Go, Clear, TypeOK
<1>12. ASSUME NEW p \in Procs, ReadStatus(p) PROVE Graves'
  BY <1>12 DEF ReadStatus, Move, Go, Clear, TypeOK
<1>13. ASSUME NEW p \in Procs, FillCache(p) PROVE Graves'
  BY <1>13 DEF FillCache, Move, Go, Clear, TypeOK
<1>14. ASSUME NEW p \in Procs, Serve(p) PROVE Graves'
  BY <1>14 DEF Serve, Move, Go, Clear, TypeOK
<1>15. ASSUME NEW p \in Procs, CloseRows(p) PROVE Graves'
  BY <1>15 DEF CloseRows, Move, Go, Clear, TypeOK
<1>16. ASSUME NEW p \in Procs, FindLive(p) PROVE Graves'
  BY <1>16 DEF FindLive, Move, Go, Clear, Live, Report, TypeOK
<1>17. ASSUME NEW p \in Procs, RevokeLive(p) PROVE Graves'
  BY <1>17 DEF RevokeLive, Move, Go, Clear, TypeOK
<1>18. ASSUME NEW p \in Procs, Bury(p) PROVE Graves'
  BY <1>18 DEF Bury, Move, Go, Clear, Report, TypeOK
<1>19. ASSUME NEW p \in Procs, Crash(p) PROVE Graves'
  BY <1>19 DEF Crash, Move, Go, Clear, TypeOK
<1>20. ASSUME NEW p \in Procs, NEW s \in Ids, Refresh(p, s) PROVE Graves'
  BY <1>20 DEF Refresh, Go, Start, TypeOK
<1>21. ASSUME NEW p \in Procs, NEW s \in Ids, BeginRequest(p, s) PROVE Graves'
  BY <1>21 DEF BeginRequest, Go, Start, TypeOK
<1>22. ASSUME NEW p \in Procs, NEW s \in Ids, Logout(p, s) PROVE Graves'
  BY <1>22 DEF Logout, Go, TypeOK
<1>23. ASSUME NEW p \in Procs, NEW s \in Ids, CreateSession(p, s) PROVE Graves'
  BY <1>23 DEF CreateSession, Go, CanCreate, TypeOK
<1>24. ASSUME NEW p \in Procs, NEW s \in Ids, Rotate(p, s) PROVE Graves'
  <2>1. /\ pc[p] = "rotate" /\ s \notin Rows /\ s \in Ids /\ sid[p] \in Rows
        /\ revoked' = revoked \cup {sid[p]} /\ found' = [found EXCEPT ![p] = {sid[p]}]
        /\ pc' = [pc EXCEPT ![p] = "sign"] /\ UNCHANGED <<stones, ended>>
    BY <1>24 DEF Rotate, Go, CanCreate, Pairs, Flow, TypeOK
  <2>2. Rows \subseteq Rows'
    BY <1>24 DEF Rotate, Rows, TypeOK
  <2>. QED
    BY <2>1, <2>2 DEF TypeOK
<1>25. ASSUME NEW s \in Ids, Evict(s) PROVE Graves'
  BY <1>25 DEF Evict, TypeOK
<1>26. ASSUME NEW s \in Ids, AccessExpires(s) PROVE Graves'
  BY <1>26 DEF AccessExpires, TypeOK
<1>27. ASSUME NEW s \in Ids, StoneExpires(s) PROVE Graves'
  BY <1>27 DEF StoneExpires, TypeOK
<1>28. CASE Restore
  BY <1>28 DEF Restore, TypeOK
<1>29. CASE ExclusionEnds
  BY <1>29 DEF ExclusionEnds, TypeOK
<1>30. CASE UNCHANGED vars
  BY <1>30 DEF vars, TypeOK
<1>. QED
  BY <1>1, <1>2, <1>3, <1>4, <1>5, <1>6, <1>7, <1>8, <1>9, <1>10, <1>11, <1>12,
     <1>13, <1>14, <1>15, <1>16, <1>17, <1>18, <1>19, <1>20, <1>21, <1>22, <1>23,
     <1>24, <1>25, <1>26, <1>27, <1>28, <1>29, <1>30 DEF Next, Call, Continue

\* Each step keeps what was ended under a tombstone or sealed.
LEMMA OutStep ==
    ASSUME SessionsAssumption, TypeOK, Pairs, Flow, Graves, Out, [Next]_vars PROVE Out'
<1>. USE DEF Out, Sealed, account, rows, redis, tokens, work, reports
<1>1. ASSUME NEW p \in Procs, Login(p) PROVE Out'
  BY <1>1 DEF Login, Go, Start, TypeOK, Pairs, Flow, Graves
<1>2. ASSUME NEW p \in Procs, LogoutAll(p) PROVE Out'
  BY <1>2 DEF LogoutAll, Go, TypeOK, Pairs, Flow, Graves
<1>3. ASSUME NEW p \in Procs, SelfExclude(p) PROVE Out'
  BY <1>3 DEF SelfExclude, Go, TypeOK, Pairs, Flow, Graves
<1>4. ASSUME NEW p \in Procs, ResetPassword(p) PROVE Out'
  BY <1>4 DEF ResetPassword, Go, Start, TypeOK, Pairs, Flow, Graves
<1>5. ASSUME NEW p \in Procs, Suspend(p) PROVE Out'
  BY <1>5 DEF Suspend, Go, Start, TypeOK, Pairs, Flow, Graves
<1>6. ASSUME NEW p \in Procs, ReadUser(p) PROVE Out'
  BY <1>6 DEF ReadUser, Move, Go, Clear, TypeOK, Pairs, Flow, Graves
<1>7. ASSUME NEW p \in Procs, PlaceholderTaken(p) PROVE Out'
  BY <1>7 DEF PlaceholderTaken, Move, Go, Clear, Rows, TypeOK, Pairs, Flow, Graves
<1>8. ASSUME NEW p \in Procs, StoreHash(p) PROVE Out'
  BY <1>8 DEF StoreHash, Move, Go, Clear, TypeOK, Pairs, Flow, Graves
<1>9. ASSUME NEW p \in Procs, Answer(p) PROVE Out'
  BY <1>9 DEF Answer, Move, Go, Clear, TypeOK, Pairs, Flow, Graves
<1>10. ASSUME NEW p \in Procs, ReadCache(p) PROVE Out'
  BY <1>10 DEF ReadCache, Move, Go, Clear, TypeOK, Pairs, Flow, Graves
<1>11. ASSUME NEW p \in Procs, ReadRow(p) PROVE Out'
  BY <1>11 DEF ReadRow, Move, Go, Clear, TypeOK, Pairs, Flow, Graves
<1>12. ASSUME NEW p \in Procs, ReadStatus(p) PROVE Out'
  BY <1>12 DEF ReadStatus, Move, Go, Clear, TypeOK, Pairs, Flow, Graves
<1>13. ASSUME NEW p \in Procs, FillCache(p) PROVE Out'
  BY <1>13 DEF FillCache, Move, Go, Clear, TypeOK, Pairs, Flow, Graves
<1>14. ASSUME NEW p \in Procs, Serve(p) PROVE Out'
  BY <1>14 DEF Serve, Move, Go, Clear, TypeOK, Pairs, Flow, Graves
<1>15. ASSUME NEW p \in Procs, CloseRows(p) PROVE Out'
  BY <1>15 DEF CloseRows, Move, Go, Clear, Rows, TypeOK, Pairs, Flow, Graves
<1>16. ASSUME NEW p \in Procs, FindLive(p) PROVE Out'
  BY <1>16 DEF FindLive, Move, Go, Clear, Live, Rows, Report, TypeOK, Pairs, Flow,
     Graves
<1>17. ASSUME NEW p \in Procs, RevokeLive(p) PROVE Out'
  BY <1>17 DEF RevokeLive, Move, Go, Clear, Rows, TypeOK, Pairs, Flow, Graves
<1>18. ASSUME NEW p \in Procs, Bury(p) PROVE Out'
  BY <1>18 DEF Bury, Move, Go, Clear, Report, TypeOK, Pairs, Flow, Graves
<1>19. ASSUME NEW p \in Procs, Crash(p) PROVE Out'
  BY <1>19 DEF Crash, Move, Go, Clear, TypeOK, Pairs, Flow, Graves
<1>20. ASSUME NEW p \in Procs, NEW s \in Ids, Refresh(p, s) PROVE Out'
  BY <1>20 DEF Refresh, Go, Start, TypeOK, Pairs, Flow, Graves
<1>21. ASSUME NEW p \in Procs, NEW s \in Ids, BeginRequest(p, s) PROVE Out'
  BY <1>21 DEF BeginRequest, Go, Start, TypeOK, Pairs, Flow, Graves
<1>22. ASSUME NEW p \in Procs, NEW s \in Ids, Logout(p, s) PROVE Out'
  BY <1>22 DEF Logout, Go, Rows, TypeOK, Pairs, Flow, Graves
<1>23. ASSUME NEW p \in Procs, NEW s \in Ids, CreateSession(p, s) PROVE Out'
  BY <1>23 DEF CreateSession, Go, Rows, CanCreate, TypeOK, Pairs, Flow, Graves
<1>24. ASSUME NEW p \in Procs, NEW s \in Ids, Rotate(p, s) PROVE Out'
  BY <1>24 DEF Rotate, Go, Rows, CanCreate, TypeOK, Pairs, Flow, Graves
<1>25. ASSUME NEW s \in Ids, Evict(s) PROVE Out'
  BY <1>25 DEF Evict, TypeOK, Pairs, Flow, Graves
<1>26. ASSUME NEW s \in Ids, AccessExpires(s) PROVE Out'
  BY <1>26 DEF AccessExpires, TypeOK, Pairs, Flow, Graves
<1>27. ASSUME NEW s \in Ids, StoneExpires(s) PROVE Out'
  BY <1>27 DEF StoneExpires, TypeOK, Pairs, Flow, Graves
<1>28. CASE Restore
  BY <1>28 DEF Restore, TypeOK, Pairs, Flow, Graves
<1>29. CASE ExclusionEnds
  BY <1>29 DEF ExclusionEnds, TypeOK, Pairs, Flow, Graves
<1>30. CASE UNCHANGED vars
  BY <1>30 DEF vars, TypeOK, Pairs, Flow, Graves
<1>. QED
  BY <1>1, <1>2, <1>3, <1>4, <1>5, <1>6, <1>7, <1>8, <1>9, <1>10, <1>11, <1>12,
     <1>13, <1>14, <1>15, <1>16, <1>17, <1>18, <1>19, <1>20, <1>21, <1>22, <1>23,
     <1>24, <1>25, <1>26, <1>27, <1>28, <1>29, <1>30 DEF Next, Call, Continue

\* The initial states.
LEMMA InvInit == ASSUME SessionsAssumption, Init PROVE Inv
<1>1. TypeOK
  <2>1. /\ hash \in [Ids -> {"absent", "placeholder", "token"}] /\ proof \in [Ids -> {0, 1}]
        /\ children \in [Ids -> SUBSET Ids]
    BY DEF Init
  <2>2. /\ sid \in [Procs -> Ids \cup {0}] /\ fresh \in [Procs -> Ids \cup {0}]
        /\ secret \in [Procs -> {0, 1}] /\ found \in [Procs -> SUBSET Ids]
        /\ late \in [Procs -> SUBSET {"session", "account"}]
    BY DEF Init
  <2>3. goal \in [Procs -> EntryPoints \cup {"reuse"}]
    BY DEF Init, EntryPoints
  <2>4. pc \in [Procs -> {"idle"}]
    BY DEF Init
  <2>5. faults \in 0 .. MaxFaults
    BY DEF Init, SessionsAssumption
  <2>. QED
    BY <2>1, <2>2, <2>3, <2>4, <2>5 DEF Init, TypeOK
<1>2. Pairs /\ Flow
  BY DEF Init, Pairs, Flow, Rows
<1>3. Graves /\ Out
  BY DEF Init, Graves, TombstonesTrue, Out
<1>. QED
  BY <1>1, <1>2, <1>3 DEF Inv

\* The inductive invariant.
LEMMA InvHolds == ASSUME SessionsAssumption PROVE Spec => []Inv
<1>1. Init => Inv
  BY InvInit
<1>2. Inv /\ [Next]_vars => Inv'
  BY TypeStep, PairsStep, FlowStep, GravesStep, OutStep DEF Inv
<1>. QED
  BY <1>1, <1>2, PTL DEF Spec

\* A session is tombstoned only when it is revoked, and a call that begins after it was
\* reported ended is never served, for any number of open calls and deaths between two
\* statements (AuthService.tombstoneSession and revokeAllSessions, JwtStrategy.validate).
THEOREM SignedOutForGood ==
    ASSUME SessionsAssumption PROVE Spec => [](TypeOK /\ TombstonesTrue /\ SignedOutStaysOut)
<1>1. Inv => TypeOK /\ TombstonesTrue /\ SignedOutStaysOut
  BY DEF Inv, TypeOK, Graves, Out, Sealed, Flow, Pairs, SignedOutStaysOut
<1>. QED
  BY <1>1, InvHolds, PTL

=============================================================================
