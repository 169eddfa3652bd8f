---- MODULE Api -------------------------------------------------------------
(* The components of the API server.  They meet on no state but the ledger, which *)
(* module Wallet has, and the sessions, which Sessions and Tokens look at from two *)
(* sides: part says which of them runs; the parts that end in _end are for what     *)
(* calls come to in the end, and have bounds of their own.  After the specification *)
(* come the proofs, one component after the other, of what holds for all values of  *)
(* the constants; those of Sessions, Idempotency and Rewards are in their modules.  *)
EXTENDS Integers, Sequences, FiniteSets, TLC, FiniteSetTheorems, WellFoundedInduction, TLAPS

CONSTANTS Parts,      \* the ones that may run
          Off, None, Null,
          \* The tokens: what restarts set, how long a principal is cached.
          Configs, Margin, PrincipalTtl, MaxTokens, MaxTime,
          \* Accounts and the codes of their contacts.
          Procs, UserIds, Emails, Mobiles, Channels, MaxAttempts, MaxIssues, MaxFaults,
          \* The codes of password resets.
          Resetters, MaxResetAttempts, MaxResetIssues, MaxGuesses,
          \* One account, its patches and its exclusions.
          Editors, Values, Durations, MaxDays,
          \* The tournaments and who joins them, with which keys.
          Joiners, Players, Cups, FreeCups, Seats, KeysFor, MaxDeaths,
          \* What administrators set.
          AdminCalls, Kind, Value, AdminValues, AdminRoles, Tries,
          \* Failures on their way to a client, and the life of the server.
          ApiCalls, Fields, Requests, Commands, MaxOutages

VARIABLES
    part,  \* the one that runs
    sessions_status, password, excluded, hash, revoked, proof, children, sessions_stones,
    covering, sessions_cached, usable, sessions_held, sessions_pc, goal, sid, fresh, secret,
    found, ended, banned, late, sessions_faults,
    tokens_now, config, roles, changed, tokens, rows, tokens_stones, tokens_cached, opening,
    from, buried, served,
    users, codes, resets, signed, registration_pc, dto, id, registration_answer,
    registration_faults,
    registered, verified, bonuses, verification_records, verification_cooldown,
    verification_pc, chan, verification_guess, rec, verification_held, verification_latest,
    verification_faults,
    resetCodes_record, resetCodes_cooldown, made, out, resetCodes_pc, resetCodes_guess,
    copy, wrong, opened, over, raced, guesses,
    account_user, prefs, limits, account_records, account_status, account_now, trail,
    account_pc, patch, active, ends, account_answer, shown, written, since, account_latest,
    promised,
    idempotency_record, idempotency_pc, scope, body, lost, ran, idempotency_answer, settled,
    rewards_ledger, balance, redemptions, clock, rewards_pc, rewards_user, key, seen, drift,
    sent, calls, rewards_faults,
    open, players, fees, tournaments_pc, tournaments_call, tournaments_faults,
    at, tries, administration_status, setting, administration_ledger, sessions, audit, did,
    errors_call, minted, problem, header, error, logged, retried,
    phase, up, conn, server, request, left, asked, probe, ready, was, closer, todo, exit,
    outages,
    authClient_open, session, stored, issued, live, authClient_call, applied, told

PlayerOps == {"login", "refresh", "request", "logoutAll", "exclude", "reset"}

\* Two secrets, then one for both; the lifetimes shrink and grow.
Setting(ka, ta, kr, tr) ==
    [access |-> [key |-> ka, ttl |-> ta], refresh |-> [key |-> kr, ttl |-> tr]]
Restarts == {Setting("a", 3, "r", 4), Setting("a", 1, "a", 2)}

\* alice's calendar is ahead of UTC, bob's is not.
Calendars == "alice" :> 1 @@ "bob" :> 0

\* A header that two clients send, and one that is the key of alice's second day.
Headers == {<<"client", "k1">>, <<"daily", "alice", 1>>}

\* One key per user and tournament, as a client that retries sends.
KeyEach == [j \in {"alice", "bob"} \X {"cup", "open_day"} |-> {j}]
SeatsEach == "cup" :> 2 @@ "open_day" :> 0

\* One key per user, and two seats.
Join(u) == [user |-> u, tournament |-> "cup", key |-> u]

Proc   == <<"p1", "p2">>
Joiner == <<"alice", "bob">>
Call   == <<"query", "mutation">>

\* A credit, a setting, an admin who may not set it, and a suspension.
AdminKind  == [c \in {"suspend", "credit", "set", "sneak"} |->
                  CASE c = "suspend" -> "status" [] c = "credit" -> "credit" [] OTHER -> "setting"]
AdminValue == [c \in {"suspend", "credit", "set", "sneak"} |->
                  CASE c = "suspend" -> "SUSPENDED" [] c = "credit" -> "100"
                    [] c = "set" -> "on" [] OTHER -> "off"]
AdminRole  == [c \in {"suspend", "credit", "set", "sneak"} |->
                  IF c = "set" THEN {"super_admin"} ELSE {"admin"}]
AdminTries == [c \in {"suspend", "credit", "set", "sneak"} |->
                  IF c = "credit" THEN 2 ELSE 1]

Sessions == INSTANCE Sessions WITH
    Procs <- {"p1", "p2"}, MaxSessions <- 2, Ops <- PlayerOps, MaxFaults <- 0,
    status <- sessions_status, stones <- sessions_stones, cached <- sessions_cached,
    held <- sessions_held, pc <- sessions_pc, faults <- sessions_faults
SessionsCrash == INSTANCE Sessions WITH
    Procs <- {"p1", "p2"}, MaxSessions <- 2,
    Ops <- {"login", "refresh", "request", "logoutAll"}, MaxFaults <- 1,
    status <- sessions_status, stones <- sessions_stones, cached <- sessions_cached,
    held <- sessions_held, pc <- sessions_pc, faults <- sessions_faults
SessionsReuse == INSTANCE Sessions WITH
    Procs <- {"p1", "p2"}, MaxSessions <- 3, Ops <- {"login", "refresh"}, MaxFaults <- 0,
    status <- sessions_status, stones <- sessions_stones, cached <- sessions_cached,
    held <- sessions_held, pc <- sessions_pc, faults <- sessions_faults
Tokens == INSTANCE Tokens WITH
    MaxSessions <- MaxTokens, now <- tokens_now, stones <- tokens_stones, cached <- tokens_cached
Registration == INSTANCE Registration WITH
    Ids <- UserIds, pc <- registration_pc, answer <- registration_answer,
    faults <- registration_faults
Verification == INSTANCE Verification WITH
    records <- verification_records,
    cooldown <- verification_cooldown, pc <- verification_pc, guess <- verification_guess,
    held <- verification_held, latest <- verification_latest, faults <- verification_faults
ResetCodes == INSTANCE ResetCodes WITH
    Procs <- Resetters, MaxAttempts <- MaxResetAttempts, MaxIssues <- MaxResetIssues,
    record <- resetCodes_record, cooldown <- resetCodes_cooldown, pc <- resetCodes_pc,
    guess <- resetCodes_guess
Account == INSTANCE Account WITH
    Calls <- Editors,
    user <- account_user, records <- account_records, status <- account_status,
    now <- account_now, pc <- account_pc, answer <- account_answer, latest <- account_latest
Idempotency == INSTANCE Idempotency WITH
    Attempts <- {"a1", "a2", "a3"}, Scopes <- {"s1"}, Bodies <- {"b1", "b2"}, Faults <- {},
    record <- idempotency_record, pc <- idempotency_pc, answer <- idempotency_answer
IdempotencyFaults == INSTANCE Idempotency WITH
    Attempts <- {"a1", "a2", "a3"}, Scopes <- {"s1"}, Bodies <- {"b1", "b2"},
    Faults <- {"fail", "drop", "slow", "open"}, record <- idempotency_record,
    pc <- idempotency_pc, answer <- idempotency_answer
Rewards == INSTANCE Rewards WITH
    Procs <- {"p1", "p2"}, Users <- {"alice", "bob"}, Zone <- Calendars,
    Keys <- Headers, Cap <- 0, PerUser <- 2, Starts <- 1, Expires <- 3,
    Routes <- {"wallet/daily", "wallet/promo", "rewards/daily", "reconcile"}, MaxCalls <- 3,
    MaxClock <- 3, MaxFaults <- 1, ledger <- rewards_ledger, pc <- rewards_pc, user <- rewards_user,
    faults <- rewards_faults
RewardsRedeem == INSTANCE Rewards WITH
    Procs <- {"p1", "p2"}, Users <- {"alice", "bob"}, Zone <- Calendars,
    Keys <- Headers, Cap <- 2, PerUser <- 1, Starts <- 0, Expires <- 1,
    Routes <- {"rewards/daily", "rewards/promo", "wallet/daily"}, MaxCalls <- 4,
    MaxClock <- 1, MaxFaults <- 1, ledger <- rewards_ledger, pc <- rewards_pc,
    user <- rewards_user, faults <- rewards_faults
TournamentsEnd == INSTANCE Tournaments WITH
    Procs <- {"p1", "p2"}, Users <- {"alice", "bob"}, Tournaments <- {"cup"}, Free <- {},
    Seats <- [t \in {"cup"} |-> 2],
    KeysFor <- [j \in {"alice", "bob"} \X {"cup"} |-> {j[1]}], MaxFaults <- 2,
    MayClose <- TRUE, pc <- tournaments_pc, call <- tournaments_call,
    faults <- tournaments_faults
Tournaments == INSTANCE Tournaments WITH
    Procs <- Joiners, Users <- Players, Tournaments <- Cups, Free <- FreeCups,
    MaxFaults <- MaxDeaths,
    MayClose <- TRUE, pc <- tournaments_pc, call <- tournaments_call,
    faults <- tournaments_faults
Administration == INSTANCE Administration WITH
    Calls <- AdminCalls, Values <- AdminValues, Roles <- AdminRoles,
    status <- administration_status, ledger <- administration_ledger
Errors == INSTANCE Errors WITH
    Calls <- ApiCalls, Production <- TRUE, call <- errors_call
Lifecycle == INSTANCE Lifecycle

SessionsEnd == INSTANCE Sessions WITH
    Procs <- {"p1", "p2"}, MaxSessions <- 2, Ops <- {"login", "request", "logout"},
    MaxFaults <- 0, status <- sessions_status, stones <- sessions_stones,
    cached <- sessions_cached, held <- sessions_held, pc <- sessions_pc,
    faults <- sessions_faults
VerificationEnd == INSTANCE Verification WITH
    Procs <- {"p1", "p2"}, Channels <- {"email"}, MaxAttempts <- 1, MaxIssues <- 2,
    MaxFaults <- 0, records <- verification_records, cooldown <- verification_cooldown,
    pc <- verification_pc, guess <- verification_guess, held <- verification_held,
    latest <- verification_latest, faults <- verification_faults
RegistrationEnd == INSTANCE Registration WITH
    Procs <- {"p1"}, Ids <- {1, 2}, Emails <- {"e1"}, Mobiles <- {"m1"}, MaxFaults <- 2,
    pc <- registration_pc, answer <- registration_answer, faults <- registration_faults
IdempotencyEnd == INSTANCE Idempotency WITH
    Attempts <- {"a1", "a2"}, Scopes <- {"s1", "s2"}, Bodies <- {"b1", "b2"},
    Faults <- {"fail", "drop", "slow", "open", "renew"}, record <- idempotency_record,
    pc <- idempotency_pc, answer <- idempotency_answer
AuthClientEnd == INSTANCE AuthClient WITH
    Tabs <- {"t1"}, Calls <- {"query", "mutation"}, Mutations <- {"mutation"}, Logins <- 1,
    open <- authClient_open, call <- authClient_call
LifecycleEnd == INSTANCE Lifecycle WITH
    Requests <- {"q1"}, Commands <- 1, MaxOutages <- 1

sessionsVars == <<sessions_status, password, excluded, hash, revoked, proof, children,
    sessions_stones, covering, sessions_cached, usable, sessions_held, sessions_pc, goal,
    sid, fresh, secret, found, ended, banned, late, sessions_faults>>
tokensVars == <<tokens_now, config, roles, changed, tokens, rows, tokens_stones,
    tokens_cached, opening, from, buried, served>>
registrationVars == <<users, codes, resets, signed, registration_pc, dto, id,
    registration_answer, registration_faults>>
verificationVars == <<registered, verified, bonuses, verification_records,
    verification_cooldown, verification_pc, chan, verification_guess, rec,
    verification_held, verification_latest, verification_faults>>
resetCodesVars == <<resetCodes_record, resetCodes_cooldown, made, out, resetCodes_pc,
    resetCodes_guess, copy, wrong, opened, over, raced, guesses>>
accountVars == <<account_user, prefs, limits, account_records, account_status, account_now,
    trail, account_pc, patch, active, ends, account_answer, shown, written, since,
    account_latest, promised>>
idempotencyVars == <<idempotency_record, idempotency_pc, scope, body, lost, ran,
    idempotency_answer, settled>>
rewardsVars == <<rewards_ledger, balance, redemptions, clock, rewards_pc, rewards_user, key,
    seen, drift, sent, calls, rewards_faults>>
tournamentsVars == <<open, players, fees, tournaments_pc, tournaments_call,
    tournaments_faults>>
administrationVars == <<at, tries, administration_status, setting, administration_ledger,
    sessions, audit, did>>
errorsVars == <<errors_call, minted, problem, header, error, logged, retried>>
lifecycleVars == <<phase, up, conn, server, request, left, asked, probe, ready, was, closer,
    todo, exit, outages>>
authClientVars == <<authClient_open, session, stored, issued, live, authClient_call,
    applied, told>>
vars == <<part, sessionsVars, tokensVars, registrationVars, verificationVars,
    resetCodesVars, accountVars, idempotencyVars, rewardsVars, tournamentsVars,
    administrationVars, errorsVars, lifecycleVars, authClientVars>>

\* A component that does not run keeps Off in its variables.
SessionsRests ==
    /\ sessions_status = Off /\ password = Off /\ excluded = Off /\ hash = Off
    /\ revoked = Off /\ proof = Off /\ children = Off /\ sessions_stones = Off
    /\ covering = Off /\ sessions_cached = Off /\ usable = Off /\ sessions_held = Off
    /\ sessions_pc = Off /\ goal = Off /\ sid = Off /\ fresh = Off /\ secret = Off
    /\ found = Off /\ ended = Off /\ banned = Off /\ late = Off /\ sessions_faults = Off
TokensRests ==
    /\ tokens_now = Off /\ config = Off /\ roles = Off /\ changed = Off /\ tokens = Off
    /\ rows = Off /\ tokens_stones = Off /\ tokens_cached = Off /\ opening = Off
    /\ from = Off /\ buried = Off /\ served = Off
RegistrationRests ==
    /\ users = Off /\ codes = Off /\ resets = Off /\ signed = Off /\ registration_pc = Off
    /\ dto = Off /\ id = Off /\ registration_answer = Off /\ registration_faults = Off
VerificationRests ==
    /\ registered = Off /\ verified = Off /\ bonuses = Off /\ verification_records = Off
    /\ verification_cooldown = Off /\ verification_pc = Off /\ chan = Off
    /\ verification_guess = Off /\ rec = Off /\ verification_held = Off
    /\ verification_latest = Off /\ verification_faults = Off
ResetCodesRests ==
    /\ resetCodes_record = Off /\ resetCodes_cooldown = Off /\ made = Off /\ out = Off
    /\ resetCodes_pc = Off /\ resetCodes_guess = Off /\ copy = Off /\ wrong = Off
    /\ opened = Off /\ over = Off /\ raced = Off /\ guesses = Off
AccountRests ==
    /\ account_user = Off /\ prefs = Off /\ limits = Off /\ account_records = Off
    /\ account_status = Off /\ account_now = Off /\ trail = Off /\ account_pc = Off
    /\ patch = Off /\ active = Off /\ ends = Off /\ account_answer = Off /\ shown = Off
    /\ written = Off /\ since = Off /\ account_latest = Off /\ promised = Off
IdempotencyRests ==
    /\ idempotency_record = Off /\ idempotency_pc = Off /\ scope = Off /\ body = Off
    /\ lost = Off /\ ran = Off /\ idempotency_answer = Off /\ settled = Off
RewardsRests ==
    /\ rewards_ledger = Off /\ balance = Off /\ redemptions = Off /\ clock = Off
    /\ rewards_pc = Off /\ rewards_user = Off /\ key = Off /\ seen = Off /\ drift = Off
    /\ sent = Off /\ calls = Off /\ rewards_faults = Off
TournamentsRests ==
    /\ open = Off /\ players = Off /\ fees = Off /\ tournaments_pc = Off
    /\ tournaments_call = Off /\ tournaments_faults = Off
AdministrationRests ==
    /\ at = Off /\ tries = Off /\ administration_status = Off /\ setting = Off
    /\ administration_ledger = Off /\ sessions = Off /\ audit = Off /\ did = Off
ErrorsRests ==
    /\ errors_call = Off /\ minted = Off /\ problem = Off /\ header = Off /\ error = Off
    /\ logged = Off /\ retried = Off
LifecycleRests ==
    /\ phase = Off /\ up = Off /\ conn = Off /\ server = Off /\ request = Off /\ left = Off
    /\ asked = Off /\ probe = Off /\ ready = Off /\ was = Off /\ closer = Off /\ todo = Off
    /\ exit = Off /\ outages = Off
AuthClientRests ==
    /\ authClient_open = Off /\ session = Off /\ stored = Off /\ issued = Off /\ live = Off
    /\ authClient_call = Off /\ applied = Off /\ told = Off

Init ==
    /\ part \in Parts
    /\ IF part = "sessions" THEN Sessions!Init
       ELSE IF part = "sessions_crash" THEN SessionsCrash!Init
       ELSE IF part = "sessions_reuse" THEN SessionsReuse!Init
       ELSE IF part = "sessions_end" THEN SessionsEnd!Init
       ELSE SessionsRests
    /\ IF part = "tokens" THEN Tokens!Init ELSE TokensRests
    /\ IF part = "registration" THEN Registration!Init
       ELSE IF part = "registration_end" THEN RegistrationEnd!Init
       ELSE RegistrationRests
    /\ IF part = "verification" THEN Verification!Init
       ELSE IF part = "verification_end" THEN VerificationEnd!Init
       ELSE VerificationRests
    /\ IF part = "reset_codes" THEN ResetCodes!Init ELSE ResetCodesRests
    /\ IF part = "account" THEN Account!Init ELSE AccountRests
    /\ IF part = "idempotency" THEN Idempotency!Init
       ELSE IF part = "idempotency_faults" THEN IdempotencyFaults!Init
       ELSE IF part = "idempotency_end" THEN IdempotencyEnd!Init
       ELSE IdempotencyRests
    /\ IF part = "rewards" THEN Rewards!Init
       ELSE IF part = "rewards_redeem" THEN RewardsRedeem!Init
       ELSE RewardsRests
    /\ IF part = "tournaments" THEN Tournaments!Init
       ELSE IF part = "tournaments_end" THEN TournamentsEnd!Init
       ELSE TournamentsRests
    /\ IF part = "administration" THEN Administration!Init ELSE AdministrationRests
    /\ IF part = "errors" THEN Errors!Init ELSE ErrorsRests
    /\ IF part = "lifecycle" THEN Lifecycle!Init
       ELSE IF part = "lifecycle_end" THEN LifecycleEnd!Init
       ELSE LifecycleRests
    /\ IF part = "auth_client_end" THEN AuthClientEnd!Init ELSE AuthClientRests

Next ==
    /\ UNCHANGED part
    /\ IF part = "sessions" THEN Sessions!Next
       ELSE IF part = "sessions_crash" THEN SessionsCrash!Next
       ELSE IF part = "sessions_reuse" THEN SessionsReuse!Next
       ELSE IF part = "sessions_end" THEN SessionsEnd!Next
       ELSE UNCHANGED sessionsVars
    /\ IF part = "tokens" THEN Tokens!Next ELSE UNCHANGED tokensVars
    /\ IF part = "registration" THEN Registration!Next
       ELSE IF part = "registration_end" THEN RegistrationEnd!Next
       ELSE UNCHANGED registrationVars
    /\ IF part = "verification" THEN Verification!Next
       ELSE IF part = "verification_end" THEN VerificationEnd!Next
       ELSE UNCHANGED verificationVars
    /\ IF part = "reset_codes" THEN ResetCodes!Next ELSE UNCHANGED resetCodesVars
    /\ IF part = "account" THEN Account!Next ELSE UNCHANGED accountVars
    /\ IF part = "idempotency" THEN Idempotency!Next
       ELSE IF part = "idempotency_faults" THEN IdempotencyFaults!Next
       ELSE IF part = "idempotency_end" THEN IdempotencyEnd!Next
       ELSE UNCHANGED idempotencyVars
    /\ IF part = "rewards" THEN Rewards!Next
       ELSE IF part = "rewards_redeem" THEN RewardsRedeem!Next
       ELSE UNCHANGED rewardsVars
    /\ IF part = "tournaments" THEN Tournaments!Next
       ELSE IF part = "tournaments_end" THEN TournamentsEnd!Next
       ELSE UNCHANGED tournamentsVars
    /\ IF part = "administration" THEN Administration!Next ELSE UNCHANGED administrationVars
    /\ IF part = "errors" THEN Errors!Next ELSE UNCHANGED errorsVars
    /\ IF part = "lifecycle" THEN Lifecycle!Next
       ELSE IF part = "lifecycle_end" THEN LifecycleEnd!Next
       ELSE UNCHANGED lifecycleVars
    /\ IF part = "auth_client_end" THEN AuthClientEnd!Next ELSE UNCHANGED authClientVars

Spec == Init /\ [][Next]_vars

\* Of each part, the fairness of its FairSpec: calls that have begun go on, timers fire,
\* caches forget; a client that tries again does so as often as it takes.
FairSpec ==
    /\ Spec
    /\ WF_registrationVars(part = "registration_end" /\ RegistrationEnd!Step("p1"))
    /\ WF_lifecycleVars(part = "lifecycle_end" /\ LifecycleEnd!Listen)
    /\ WF_lifecycleVars(part = "lifecycle_end" /\ LifecycleEnd!NothingLeft)
    /\ WF_lifecycleVars(/\ part = "lifecycle_end"
                        /\ \E s \in {"db", "cache"} : LifecycleEnd!Command("q1", s))
    /\ \A s \in {"db", "cache"} :
         WF_lifecycleVars(part = "lifecycle_end" /\ LifecycleEnd!OnModuleInit(s))
    /\ \A c \in {"nest", "main"} : WF_lifecycleVars(part = "lifecycle_end" /\ LifecycleEnd!Close(c))
    /\ \A a \in {"a1", "a2"} :
         WF_idempotencyVars(/\ part = "idempotency_end" /\ idempotency_pc[a] # "new"
                            /\ IdempotencyEnd!Step(a))
    /\ \A s \in {"s1", "s2"} :
         WF_idempotencyVars(part = "idempotency_end" /\ IdempotencyEnd!Expire(s))
    /\ \A c \in {"query", "mutation"} :
         /\ WF_authClientVars(part = "auth_client_end" /\ AuthClientEnd!Fail(c))
         /\ WF_authClientVars(/\ part = "auth_client_end" /\ authClient_call[c].state = "waiting"
                              /\ AuthClientEnd!Send("t1", c))
    /\ \A i \in 1..2 :
         /\ WF_sessionsVars(part = "sessions_end" /\ SessionsEnd!Continue(Proc[i]))
         /\ WF_sessionsVars(part = "sessions_end" /\ SessionsEnd!Evict(i))
         /\ WF_verificationVars(part = "verification_end" /\ VerificationEnd!Step(Proc[i]))
         /\ WF_tournamentsVars(part = "tournaments_end" /\ TournamentsEnd!Step(Proc[i]))
         /\ SF_tournamentsVars(part = "tournaments_end" /\ TournamentsEnd!Retry(Join(Joiner[i])))
         /\ SF_registrationVars(part = "registration_end" /\ RegistrationEnd!Useful(i))

-----------------------------------------------------------------------------
\* The bounds of each are ones its component allows.
ASSUME ApiAssumption ==
    /\ Sessions!SessionsAssumption /\ SessionsCrash!SessionsAssumption
    /\ SessionsReuse!SessionsAssumption /\ Tokens!TokensAssumption
    /\ Registration!RegistrationAssumption /\ Verification!VerificationAssumption
    /\ ResetCodes!ResetCodesAssumption /\ Account!AccountAssumption
    /\ Idempotency!IdempotencyAssumption /\ IdempotencyFaults!IdempotencyAssumption
    /\ Rewards!RewardsAssumption /\ RewardsRedeem!RewardsAssumption
    /\ Administration!AdministrationAssumption /\ Errors!ErrorsAssumption
    \* What is asked of the callers of a tournament: one key for each entry, and kept.
    /\ Tournaments!TournamentsAssumption /\ Tournaments!KeysApart /\ Tournaments!KeysKept
    /\ Lifecycle!LifecycleAssumption
    /\ SessionsEnd!SessionsAssumption /\ VerificationEnd!VerificationAssumption
    /\ RegistrationEnd!RegistrationAssumption /\ IdempotencyEnd!IdempotencyAssumption
    /\ TournamentsEnd!TournamentsAssumption /\ AuthClientEnd!AuthClientAssumption
    /\ LifecycleEnd!LifecycleAssumption

\* The variables of the component that runs keep their types, and its rows, records and
\* calls fit each other.
TypeOK ==
    /\ part = "sessions"           => Sessions!TypeOK
    /\ part = "tokens"             => Tokens!TypeOK
    /\ part = "registration"       => Registration!TypeOK
    /\ part = "verification"       => Verification!TypeOK
    /\ part = "reset_codes"        => ResetCodes!TypeOK
    /\ part = "account"            => Account!TypeOK
    /\ part = "idempotency_faults" => IdempotencyFaults!TypeOK
    /\ part = "rewards"            => Rewards!TypeOK
    /\ part = "tournaments"        => Tournaments!TypeOK
    /\ part = "administration"     => Administration!TypeOK
    /\ part = "errors"             => Errors!TypeOK
    /\ part = "lifecycle"          => Lifecycle!TypeOK

\* Who was signed out stays out: no request that begins after a call has answered that
\* its session is ended is served, by tombstone, row or cache; no tombstone meets a live
\* session; and tokens are taken for what they are, with the roles of now, whatever a
\* restart did to secrets and lifetimes (auth.service.ts, jwt.strategy.ts, token.service.ts).
SignedOutStaysOut ==
    /\ part = "sessions" => Sessions!TombstonesTrue /\ Sessions!SignedOutStaysOut
    /\ part = "sessions_crash" => SessionsCrash!TombstonesTrue /\ SessionsCrash!SignedOutStaysOut
    /\ part = "tokens" =>
          /\ Tokens!KindsApart /\ Tokens!RevokedNeverServed
          /\ Tokens!RowOutlivesToken /\ Tokens!RolesFresh

\* However guesses, resends and crashes meet, a code opens what it was made for, once,
\* within its attempts; of reset codes, each that no other call and no expiry changed
\* under a call that had read it (otp.service.ts, auth.service.ts).
CodesGuarded ==
    /\ part = "verification" =>
          Verification!GuessesBounded /\ Verification!VerifiedByCode /\ Verification!BonusOnce
    /\ part = "reset_codes" =>
          ResetCodes!SingleUse /\ ResetCodes!AttemptsCapped /\ ResetCodes!StaysGone

\* An account has all its rows or is not there, and who is told of it is told the truth;
\* patches that meet lose nothing, and an exclusion is only extended (registerUser,
\* users.service.ts).
AccountsWhole ==
    /\ part = "registration" =>
          Registration!AccountsComplete /\ Registration!RefusalTrue /\ Registration!AnswerCurrent
    /\ part = "account" =>
          /\ Account!NothingLost /\ Account!AnswerShows
          /\ Account!NeverShortened /\ Account!ExclusionShuts

\* A request that is sent again runs once, is answered with what was done for it, and a
\* refusal is told as it was meant and not tried again, by a process that has connected
\* to its stores (idempotency.middleware.ts, http-exception.filter.ts, the client's
\* api.ts, prisma.service.ts).
RequestsRunOnce ==
    /\ part = "idempotency" => Idempotency!KeyRunsOnce /\ Idempotency!RetriesReplay
    /\ part = "idempotency_faults" => IdempotencyFaults!AnswersTrue
    /\ part = "errors" =>
          /\ Errors!NeverLeaks /\ Errors!SameFailure
          /\ Errors!RefusalsAreFinal /\ Errors!HandlerGreppable
    /\ part = "lifecycle" => Lifecycle!ServesConnected

\* The reward of a day of the user's calendar is granted to whoever claims it first, unless
\* the key of that day was sent as a header (wallet.service.ts 452), and the readiness probe
\* answers 200 only if each store was up at some moment of that probe (health.controller.ts).
StepsAsMeant ==
    [][/\ part = "rewards" => Rewards!GrantedEachDay
       /\ part = "lifecycle" => Lifecycle!ReadyMeansUp]_vars

\* Every redemption whose key no other user asks under has its coins, and nobody has more
\* than the code allows on the wallet's route; who plays in a tournament has paid and nobody
\* twice, with the keys clients keep; the audit log tells of nothing that did not happen, and
\* of every credit (wallet.service.ts, rewards.service.ts, tournaments.service.ts,
\* admin.service.ts).
CoinsExplained ==
    /\ part = "rewards" => Rewards!PerUserLimit
    /\ part = "rewards_redeem" => RewardsRedeem!RedemptionsPaid
    /\ part = "tournaments" => Tournaments!PlayersPaid /\ Tournaments!ChargedOnce
    /\ part = "administration" =>
          /\ Administration!TrailTrue /\ Administration!CreditsExplained
          /\ Administration!CreditedOnce

\* What is owed is given, through calls that die and are tried again: the bonus of a
\* verified contact, the sign-in of an account, the seat a fee was paid for, the release
\* of a key that was reserved, the end of a call to the API, and of a process that was
\* told to stop (auth.service.ts, tournaments.service.ts, idempotency.middleware.ts,
\* request() of the clients, main.ts).
Owed(i) ==
    CASE part = "verification_end" -> verified # {}
      [] part = "registration_end" -> users[i].made
      [] part = "tournaments_end"  -> TournamentsEnd!FeesOf(Joiner[i], "cup") # {}
      [] part = "idempotency_end"  -> idempotency_record[<<"s1", "s2">>[i]].state = "in_progress"
      [] part = "auth_client_end"  -> authClient_call[Call[i]].state # "idle"
      [] part = "lifecycle_end"    -> LifecycleEnd!Signalled
      [] OTHER -> FALSE
Given(i) ==
    CASE part = "verification_end" -> bonuses # {}
      [] part = "registration_end" -> i \in signed
      [] part = "tournaments_end"  -> \/ <<Joiner[i], "cup">> \in players
                                      \/ TournamentsEnd!Full("cup") \/ "cup" \notin open
      [] part = "idempotency_end"  -> idempotency_record[<<"s1", "s2">>[i]].state # "in_progress"
      [] part = "auth_client_end"  -> authClient_call[Call[i]].state = "done"
      [] part = "lifecycle_end"    -> ~LifecycleEnd!Running
      [] OTHER -> FALSE
OwedIsGiven == \A i \in 1..2 : Owed(i) ~> Given(i)

\* A revoked session, tombstoned or not, is served only until the cached principals are
\* forgotten (jwt.strategy.ts 71-127).
RevokedComesOut ==
    \A i \in 1..2 :
        (part = "sessions_end" /\ i \in revoked) ~>
            [](part = "sessions_end" =>
                 /\ i \in revoked
                 /\ \A p \in {"p1", "p2"} : ~(sessions_pc[p] = "granted" /\ sid[p] = i))

\* "Refresh token rotation with reuse detection" (auth.service.ts): a refresh token opens
\* one session.
TokenUsedOnce == part = "sessions_reuse" => SessionsReuse!TokenUsedOnce
-----------------------------------------------------------------------------
(* The tokens of a session (module Tokens). *)

TokenRow == [jti : {0} \cup Tokens!Ids, expires : Int, revoked : BOOLEAN]
Principal == [role : {"player", "admin", "none"}, until : Nat]

TokenTypes ==
    /\ tokens_now \in 0 .. MaxTime /\ config \in Configs
    /\ roles \in {"player", "admin"} /\ changed \in 0 .. tokens_now
    /\ rows \in [Tokens!Ids -> TokenRow]
    /\ tokens_stones \in [Tokens!Ids -> Nat]
    /\ tokens_cached \in [Tokens!Ids -> Principal]
    /\ opening \in {0} \cup Tokens!Ids /\ from \in {0} \cup Tokens!Ids
         /\ buried \subseteq Tokens!Ids

\* A session is signed once; who is buried is revoked and not cached; a cached principal is
\* that of the account, or gone in time.
TokenInv ==
    /\ TokenTypes
    /\ \A t \in tokens : t.sid \in Tokens!Ids /\ t.jti = t.sid /\ rows[t.sid].jti = t.sid
    /\ \A t \in tokens : t.typ = "refresh" => t.exp <= rows[t.sid].expires
    /\ opening # 0 => rows[opening].jti = 0
    /\ from # 0 => opening # 0 /\ rows[from].revoked
    /\ \A s \in buried : rows[s].revoked /\ tokens_cached[s].until = 0
    /\ \A s \in Tokens!Ids : /\ tokens_cached[s].until <= tokens_now + PrincipalTtl
                             /\ tokens_cached[s].until <= changed + PrincipalTtl
                                  \/ tokens_cached[s].role = roles
    /\ served.sid \in {0} \cup Tokens!Ids
    /\ Tokens!KindsApart /\ Tokens!RevokedNeverServed /\ Tokens!RolesFresh

LEMMA Lifetimes == ASSUME Tokens!TokensAssumption, NEW c \in Configs, NEW k \in Tokens!Kinds
                   PROVE  c[k].ttl \in Nat \ {0}
  BY DEF Tokens!TokensAssumption

LEMMA TokenInvInit == ASSUME Tokens!TokensAssumption PROVE Tokens!Init => TokenInv
<1> SUFFICES ASSUME Tokens!Init PROVE TokenInv
  OBVIOUS
<1>0. MaxTokens \in Nat /\ MaxTime \in Nat /\ PrincipalTtl \in Nat
  BY DEF Tokens!TokensAssumption
<1>1. TokenTypes
  BY <1>0 DEF Tokens!Init, TokenTypes, Tokens!Ids, Tokens!Absent, TokenRow, Principal
<1>2. \A s \in Tokens!Ids : tokens_cached[s].until = 0
  BY DEF Tokens!Init
<1> QED BY <1>0, <1>1, <1>2
        DEF Tokens!Init, TokenInv, Tokens!Nothing, Tokens!KindsApart,
             Tokens!RevokedNeverServed, Tokens!RolesFresh, Tokens!Ids

LEMMA NewStones ==
  ASSUME Tokens!TokensAssumption, TokenInv, NEW S
           PROVE Tokens!Tombstones(S) \in [Tokens!Ids -> Nat]
<1>1. config.access.ttl \in Nat /\ Margin \in Nat /\ tokens_now \in Nat
  BY Lifetimes DEF Tokens!TokensAssumption, TokenInv, TokenTypes, Tokens!Kinds
<1> QED BY <1>1 DEF Tokens!Tombstones, TokenInv, TokenTypes

\* What the end of sessions leaves.
LEMMA TokenEnded ==
  ASSUME Tokens!TokensAssumption, TokenInv, NEW S \in SUBSET Tokens!Ids, Tokens!End(S)
  PROVE  /\ rows' \in [Tokens!Ids -> TokenRow]
         /\ \A s \in Tokens!Ids : /\ rows'[s].jti = rows[s].jti
                                     /\ rows'[s].expires = rows[s].expires
                                  /\ rows[s].revoked \/ s \in S => rows'[s].revoked
         /\ tokens_stones' \in [Tokens!Ids -> Nat]
         /\ tokens_cached' \in [Tokens!Ids -> Principal]
         /\ \A s \in Tokens!Ids : IF s \in S THEN tokens_cached'[s].until = 0
              ELSE tokens_cached'[s] = tokens_cached[s]
         /\ buried' = buried \cup S
<1>1. tokens_stones' \in [Tokens!Ids -> Nat]
  BY NewStones DEF Tokens!End
<1>2. rows' \in [Tokens!Ids -> TokenRow]
  <2>1. \A r \in TokenRow : [r EXCEPT !.revoked = TRUE] \in TokenRow
    BY DEF TokenRow
  <2> QED BY <2>1 DEF Tokens!End, TokenInv, TokenTypes
<1>3. \A s \in Tokens!Ids : /\ rows'[s].jti = rows[s].jti /\ rows'[s].expires = rows[s].expires
                            /\ rows[s].revoked \/ s \in S => rows'[s].revoked
  BY DEF Tokens!End, TokenInv, TokenTypes
<1>4. /\ tokens_cached' \in [Tokens!Ids -> Principal]
      /\ \A s \in Tokens!Ids : IF s \in S THEN tokens_cached'[s].until = 0
           ELSE tokens_cached'[s] = tokens_cached[s]
  BY DEF Tokens!End, TokenInv, TokenTypes, Principal
<1> QED BY <1>1, <1>2, <1>3, <1>4 DEF Tokens!End

\* A new row, for a session there was none of.
LEMMA TokenCreated ==
  ASSUME Tokens!TokensAssumption, TokenInv, NEW s \in Tokens!Ids, rows[s] = Tokens!Absent
  PROVE  /\ Tokens!Create(s) \in [Tokens!Ids -> TokenRow]
         /\ \A q \in Tokens!Ids : q # s => Tokens!Create(s)[q] = rows[q]
         /\ Tokens!Create(s)[s].jti = 0 /\ \A t \in tokens : t.sid # s
         /\ s \notin buried /\ s # from
<1>1. config.refresh.ttl \in Nat /\ tokens_now \in Nat /\ MaxTokens \in Nat
  BY Lifetimes DEF Tokens!TokensAssumption, TokenInv, TokenTypes, Tokens!Kinds
<1>2. /\ Tokens!Create(s) \in [Tokens!Ids -> TokenRow]
      /\ \A q \in Tokens!Ids : q # s => Tokens!Create(s)[q] = rows[q]
      /\ Tokens!Create(s)[s].jti = 0
  BY <1>1 DEF Tokens!Create, TokenInv, TokenTypes, TokenRow
<1>3. rows[s].jti = 0 /\ ~rows[s].revoked
  BY DEF Tokens!Absent
<1>4. \A t \in tokens : t.sid # s
  BY <1>1, <1>3 DEF TokenInv, Tokens!Ids
<1>5. s \notin buried /\ s # from
  BY <1>1, <1>3 DEF TokenInv, Tokens!Ids
<1> QED BY <1>2, <1>4, <1>5

\* A step that accepts no token.
LEMMA TokenQuiet ==
  ASSUME Tokens!TokensAssumption, served' = Tokens!Nothing, buried' \subseteq Tokens!Ids
  PROVE  served'.sid \in {0} \cup Tokens!Ids /\ Tokens!KindsApart'
           /\ Tokens!RevokedNeverServed' /\ Tokens!RolesFresh'
<1>1. MaxTokens \in Nat
  BY DEF Tokens!TokensAssumption
<1>2. served'.typ = "none" /\ served'.to = "none" /\ served'.sid = 0
  BY DEF Tokens!Nothing
<1>3. 0 \notin Tokens!Ids
  BY <1>1 DEF Tokens!Ids
<1> QED BY <1>2, <1>3 DEF Tokens!KindsApart, Tokens!RevokedNeverServed, Tokens!RolesFresh

LEMMA RefreshTtl == config["refresh"].ttl = config.refresh.ttl
  OBVIOUS

LEMMA TokenInvStep ==
  ASSUME Tokens!TokensAssumption PROVE TokenInv /\ [Tokens!Next]_(Tokens!vars) => TokenInv'
<1> SUFFICES ASSUME TokenInv, [Tokens!Next]_(Tokens!vars) PROVE TokenInv'
  OBVIOUS
<1>0. MaxTokens \in Nat /\ MaxTime \in Nat /\ PrincipalTtl \in Nat /\ Margin \in Nat
  BY DEF Tokens!TokensAssumption
<1>a. config.access.ttl \in Nat \ {0} /\ config.refresh.ttl \in Nat \ {0}
  BY Lifetimes DEF TokenInv, TokenTypes, Tokens!Kinds
<1>b. 0 \notin Tokens!Ids /\ Tokens!Ids \subseteq Nat
  BY <1>0 DEF Tokens!Ids
<1> USE <1>b DEF TokenInv, TokenTypes, Tokens!Kinds
<1>1. CASE Tokens!Sign
  <2>1. /\ rows' \in [Tokens!Ids -> TokenRow]
        /\ \A s \in Tokens!Ids : s # opening => rows'[s] = rows[s]
        /\ rows'[opening].jti = opening /\ rows'[opening].revoked = rows[opening].revoked
        /\ rows'[opening].expires = tokens_now + config.refresh.ttl
    BY <1>0, <1>a, <1>1 DEF Tokens!Sign, TokenRow
  <2>2. \A t \in tokens' : \/ t \in tokens
                           \/ /\ t.sid = opening /\ t.jti = opening
                              /\ t.typ = "refresh" => t.exp = tokens_now + config.refresh.ttl
    <3> SUFFICES ASSUME NEW t \in Tokens!Pair(opening)
                 PROVE  /\ t.sid = opening /\ t.jti = opening
                        /\ t.typ = "refresh" => t.exp = tokens_now + config.refresh.ttl
      BY <1>1 DEF Tokens!Sign
    <3>1. PICK k \in Tokens!Kinds : t = [typ |-> k, key |-> config[k].key, sid |-> opening,
                                  jti |-> opening, role |-> roles,
                                    exp |-> tokens_now + config[k].ttl]
      BY DEF Tokens!Pair
    <3> QED BY <3>1
  <2>3. tokens_stones' \in [Tokens!Ids -> Nat]
    BY <1>0, <1>a, <1>1, NewStones DEF Tokens!Sign
  <2>4. /\ tokens_cached' \in [Tokens!Ids -> Principal]
        /\ \A s \in Tokens!Ids : IF s = from THEN tokens_cached'[s].until = 0
             ELSE tokens_cached'[s] = tokens_cached[s]
    BY <1>1 DEF Tokens!Sign, Principal
  <2>5. buried' = buried \cup ({from} \ {0}) /\ opening # 0 /\ opening' = 0 /\ from' = 0
        /\ served' = Tokens!Nothing /\ UNCHANGED <<tokens_now, config, roles, changed>>
    BY <1>1 DEF Tokens!Sign
  <2>6. TokenTypes'
    BY <1>0, <2>1, <2>3, <2>4, <2>5
  <2>7. \A s \in buried' : rows'[s].revoked /\ tokens_cached'[s].until = 0
    BY <2>1, <2>4, <2>5
  <2>8. \A t \in tokens' : t.sid \in Tokens!Ids /\ t.jti = t.sid /\ rows'[t.sid].jti = t.sid
    <3> TAKE t \in tokens'
    <3>1. CASE t \in tokens
      BY <2>1, <2>5, <3>1
    <3>2. CASE t.sid = opening /\ t.jti = opening
      BY <2>1, <2>5, <3>2
    <3> QED BY <2>2, <3>1, <3>2
  <2>9. \A t \in tokens' : t.typ = "refresh" => t.exp <= rows'[t.sid].expires
    <3> SUFFICES ASSUME NEW t \in tokens', t.typ = "refresh"
                 PROVE  t.exp <= rows'[t.sid].expires
      OBVIOUS
    <3>1. CASE t \in tokens
      BY <2>1, <2>5, <3>1
    <3>2. CASE t.sid = opening /\ t.exp = tokens_now + config.refresh.ttl
      BY <1>0, <1>a, <2>1, <2>5, <3>2
    <3> QED BY <2>2, <3>1, <3>2
  <2> QED BY <1>0, <2>4, <2>5, <2>6, <2>7, <2>8, <2>9, TokenQuiet
<1>2. CASE Tokens!ChangeRoles
  <2>1. served' = Tokens!Nothing /\ buried' \subseteq Tokens!Ids
    BY <1>2 DEF Tokens!ChangeRoles
  <2> QED BY <1>0, <1>2, <2>1, TokenQuiet DEF Tokens!ChangeRoles
<1>3. CASE Tokens!Restart
  <2>1. served' = Tokens!Nothing /\ buried' \subseteq Tokens!Ids
    BY <1>3 DEF Tokens!Restart
  <2> QED BY <1>0, <1>3, <2>1, TokenQuiet DEF Tokens!Restart
<1>4. CASE Tokens!Tick
  <2>1. served' = Tokens!Nothing /\ buried' \subseteq Tokens!Ids
    BY <1>4 DEF Tokens!Tick
  <2>2. tokens_now' = tokens_now + 1 /\ tokens_now' \in 0 .. MaxTime
        /\ changed \in 0 .. tokens_now'
        /\ UNCHANGED <<config, roles, changed, tokens, rows, tokens_stones, tokens_cached,
             opening, from, buried>>
    BY <1>0, <1>4 DEF Tokens!Tick
  <2>3. \A s \in Tokens!Ids : tokens_cached[s].until <= tokens_now' + PrincipalTtl
    BY <1>0, <2>2 DEF Principal
  <2> QED BY <2>1, <2>2, <2>3, TokenQuiet
<1>5. ASSUME NEW s \in Tokens!Ids, Tokens!Open(s) PROVE TokenInv'
  <2>1. rows' = Tokens!Create(s) /\ opening' = s /\ opening = 0 /\ served' = Tokens!Nothing
        /\ rows[s] = Tokens!Absent
        /\ UNCHANGED <<tokens_now, config, roles, changed, tokens, tokens_stones,
             tokens_cached, from, buried>>
    BY <1>5 DEF Tokens!Open
  <2>2. /\ rows' \in [Tokens!Ids -> TokenRow]
        /\ \A q \in Tokens!Ids : q # s => rows'[q] = rows[q]
        /\ rows'[s].jti = 0 /\ \A t \in tokens : t.sid # s
        /\ s \notin buried /\ s # from
    BY <2>1, TokenCreated
  <2>3. TokenTypes'
    BY <2>1, <2>2
  <2> QED BY <1>0, <2>1, <2>2, <2>3, TokenQuiet
<1>6. ASSUME NEW t \in tokens, Tokens!Request(t) PROVE TokenInv'
  <2>1. /\ t.sid \in Tokens!Ids /\ t.typ = "access"
             /\ served' = [to |-> "access", typ |-> t.typ, sid |-> t.sid,
                                                           role |-> Tokens!ReadPrincipal(t).role]
        /\ tokens_cached' = [tokens_cached EXCEPT ![t.sid] = Tokens!ReadPrincipal(t)]
        /\ tokens_cached[t.sid].until > tokens_now \/ ~rows[t.sid].revoked
        /\ UNCHANGED <<tokens_now, config, roles, changed, tokens, rows, tokens_stones,
             opening, from, buried>>
    BY <1>6 DEF Tokens!Request, Tokens!Verifies, Tokens!Usable
  <2>a. /\ tokens_cached[t.sid] \in Principal /\ tokens_now \in Nat /\ changed \in Nat
             /\ changed <= tokens_now
        /\ roles \in {"player", "admin"} /\ PrincipalTtl \in Nat
        /\ tokens_cached[t.sid].until <= tokens_now + PrincipalTtl
        /\ tokens_cached[t.sid].until <= changed + PrincipalTtl
             \/ tokens_cached[t.sid].role = roles
        /\ t.sid \in buried => tokens_cached[t.sid].until = 0 /\ rows[t.sid].revoked
    <3>1. t.sid \in Tokens!Ids
      BY <2>1
    <3>2. tokens_now \in Nat /\ changed \in Nat /\ changed <= tokens_now
      BY <1>0
    <3> QED BY <1>0, <3>1, <3>2
  <2>2. Tokens!ReadPrincipal(t) \in Principal
    BY <2>a DEF Tokens!ReadPrincipal, Principal
  <2>3. /\ Tokens!ReadPrincipal(t).until <= tokens_now + PrincipalTtl
        /\ \/ Tokens!ReadPrincipal(t).until <= changed + PrincipalTtl
           \/ Tokens!ReadPrincipal(t).role = roles
    BY <2>a DEF Tokens!ReadPrincipal, Principal
  <2>4. t.sid \notin buried
    BY <2>1, <2>a
  <2>5. tokens_now >= changed + PrincipalTtl => Tokens!ReadPrincipal(t).role = roles
    BY <2>a DEF Tokens!ReadPrincipal, Principal
  <2>6. TokenTypes'
    BY <2>1, <2>2
  <2>7. \A s \in Tokens!Ids : /\ tokens_cached'[s].until <= tokens_now + PrincipalTtl
                              /\ tokens_cached'[s].until <= changed + PrincipalTtl
                                   \/ tokens_cached'[s].role = roles
                              /\ s \in buried => tokens_cached'[s].until = 0
    BY <2>1, <2>3, <2>4
  <2>8. Tokens!KindsApart' /\ Tokens!RevokedNeverServed' /\ Tokens!RolesFresh'
        /\ served'.sid \in Tokens!Ids
    BY <2>1, <2>4, <2>5 DEF Tokens!KindsApart, Tokens!RevokedNeverServed, Tokens!RolesFresh
  <2> QED BY <2>1, <2>6, <2>7, <2>8
<1>7. ASSUME NEW t \in tokens, Tokens!SignOut(t) PROVE TokenInv'
  <2>1. PICK S \in SUBSET Tokens!Ids : Tokens!End(S) /\ served' = Tokens!Nothing
                                       /\ UNCHANGED <<tokens_now, config, roles, changed,
                                            tokens, opening, from>>
    BY <1>7 DEF Tokens!SignOut
  <2>2. /\ rows' \in [Tokens!Ids -> TokenRow]
        /\ \A s \in Tokens!Ids : /\ rows'[s].jti = rows[s].jti
                                    /\ rows'[s].expires = rows[s].expires
                                 /\ rows[s].revoked \/ s \in S => rows'[s].revoked
        /\ tokens_stones' \in [Tokens!Ids -> Nat]
        /\ tokens_cached' \in [Tokens!Ids -> Principal]
        /\ \A s \in Tokens!Ids : IF s \in S THEN tokens_cached'[s].until = 0
             ELSE tokens_cached'[s] = tokens_cached[s]
        /\ buried' = buried \cup S
    BY <2>1, TokenEnded
  <2>3. TokenTypes'
    BY <2>1, <2>2
  <2>4. \A s \in buried' : rows'[s].revoked /\ tokens_cached'[s].until = 0
    BY <2>2
  <2>5. \A s \in Tokens!Ids : /\ tokens_cached'[s].until <= tokens_now + PrincipalTtl
                              /\ tokens_cached'[s].until <= changed + PrincipalTtl
                                   \/ tokens_cached'[s].role = roles
    BY <1>0, <2>2
  <2> HIDE DEF TokenTypes
  <2> QED BY <2>1, <2>2, <2>3, <2>4, <2>5, TokenQuiet DEF TokenTypes
<1>8. ASSUME NEW t \in tokens, Tokens!Reuse(t) PROVE TokenInv'
  <2>1. PICK S \in SUBSET Tokens!Ids : Tokens!End(S) /\ served' = Tokens!Nothing
        /\ (opening = 0)
                                       /\ UNCHANGED <<tokens_now, config, roles, changed,
                                            tokens, opening, from>>
    BY <1>8 DEF Tokens!Reuse
  <2>2. /\ rows' \in [Tokens!Ids -> TokenRow]
        /\ \A s \in Tokens!Ids : /\ rows'[s].jti = rows[s].jti
                                    /\ rows'[s].expires = rows[s].expires
                                 /\ rows[s].revoked \/ s \in S => rows'[s].revoked
        /\ tokens_stones' \in [Tokens!Ids -> Nat]
        /\ tokens_cached' \in [Tokens!Ids -> Principal]
        /\ \A s \in Tokens!Ids : IF s \in S THEN tokens_cached'[s].until = 0
             ELSE tokens_cached'[s] = tokens_cached[s]
        /\ buried' = buried \cup S
    BY <2>1, TokenEnded
  <2>3. TokenTypes'
    BY <2>1, <2>2
  <2>4. \A s \in buried' : rows'[s].revoked /\ tokens_cached'[s].until = 0
    BY <2>2
  <2>5. \A s \in Tokens!Ids : /\ tokens_cached'[s].until <= tokens_now + PrincipalTtl
                              /\ tokens_cached'[s].until <= changed + PrincipalTtl
                                   \/ tokens_cached'[s].role = roles
    BY <1>0, <2>2
  <2> HIDE DEF TokenTypes
  <2> QED BY <2>1, <2>2, <2>3, <2>4, <2>5, TokenQuiet DEF TokenTypes
<1>9. ASSUME NEW t \in tokens, NEW s \in Tokens!Ids, Tokens!Refresh(t, s) PROVE TokenInv'
  <2>1. /\ t.typ = "refresh" /\ t.sid \in Tokens!Ids /\ ~rows[t.sid].revoked
             /\ rows[t.sid] # Tokens!Absent
        /\ opening = 0 /\ rows[s] = Tokens!Absent
        /\ rows' = [Tokens!Create(s) EXCEPT ![t.sid].revoked = TRUE] /\ opening' = s
             /\ from' = t.sid
        /\ served' = [to |-> "refresh", typ |-> t.typ, sid |-> t.sid, role |-> t.role]
        /\ UNCHANGED <<tokens_now, config, roles, changed, tokens, tokens_stones,
             tokens_cached, buried>>
    BY <1>9 DEF Tokens!Refresh, Tokens!Verifies, Tokens!Usable
  <2>2. /\ Tokens!Create(s) \in [Tokens!Ids -> TokenRow]
        /\ \A q \in Tokens!Ids : q # s => Tokens!Create(s)[q] = rows[q]
        /\ Tokens!Create(s)[s].jti = 0 /\ \A u \in tokens : u.sid # s
        /\ s \notin buried
    BY <2>1, TokenCreated
  <2>3. /\ rows' \in [Tokens!Ids -> TokenRow]
        /\ \A q \in Tokens!Ids \ {s} : /\ rows'[q].jti = rows[q].jti
                                          /\ rows'[q].expires = rows[q].expires
                                       /\ rows[q].revoked => rows'[q].revoked
        /\ rows'[s].jti = 0 /\ rows'[t.sid].revoked
    <3>1. Tokens!Create(s)[t.sid] \in TokenRow /\ t.sid # s
      BY <2>1, <2>2
    <3> QED BY <2>1, <2>2, <3>1 DEF TokenRow
  <2>4. t.sid \notin buried
    BY <2>1
  <2>5. TokenTypes'
    BY <2>1, <2>3
  <2>6. /\ served'.sid \in Tokens!Ids /\ Tokens!KindsApart' /\ Tokens!RevokedNeverServed'
             /\ Tokens!RolesFresh'
    BY <2>1, <2>4 DEF Tokens!KindsApart, Tokens!RevokedNeverServed, Tokens!RolesFresh
  <2>7. \A q \in buried' : rows'[q].revoked /\ tokens_cached'[q].until = 0
    BY <2>1, <2>2, <2>3
  <2>8. \A u \in tokens : /\ rows'[u.sid].jti = rows[u.sid].jti
                          /\ rows'[u.sid].expires = rows[u.sid].expires
    BY <2>2, <2>3
  <2> QED BY <1>0, <2>1, <2>3, <2>5, <2>6, <2>7, <2>8
<1>10. CASE UNCHANGED Tokens!vars
  BY <1>10 DEF Tokens!vars, Tokens!KindsApart, Tokens!RevokedNeverServed, Tokens!RolesFresh
<1> QED BY <1>1, <1>2, <1>3, <1>4, <1>5, <1>6, <1>7, <1>8, <1>9, <1>10 DEF Tokens!Next

\* Whatever secrets and lifetimes a restart brings, a token is taken for what it was signed
\* as, a session that was signed out or replaced is not served, its row outlives its refresh
\* token, and a role is in force a cache's lifetime after it changed (token.service.ts,
\* jwt.strategy.ts, auth.service.ts).
THEOREM TokensSafe ==
  ASSUME Tokens!TokensAssumption
  PROVE  Tokens!Spec => [](Tokens!TypeOK /\ Tokens!KindsApart /\ Tokens!RevokedNeverServed
           /\ Tokens!RowOutlivesToken /\ Tokens!RolesFresh)
<1>1. TokenInv => Tokens!TypeOK /\ Tokens!KindsApart /\ Tokens!RevokedNeverServed
      /\ Tokens!RowOutlivesToken /\ Tokens!RolesFresh
  BY DEF TokenInv, TokenTypes, Tokens!TypeOK, Tokens!RowOutlivesToken
<1> QED BY TokenInvInit, TokenInvStep, <1>1, PTL DEF Tokens!Spec

(* The codes of an account (module Verification). *)

CodeShape ==
    /\ verification_records \in [Verification!Ids
         -> [state : {"none", "live", "expired", "verified"},
                            channel : Channels, attempts : Nat, used : Nat]]
    /\ verification_pc \in [Procs
         -> {"idle", "enforce", "supersede", "insert", "cool", "find", "compare",
                         "uncool", "mark", "bonus"}]
    /\ chan \in [Procs -> Channels]
         /\ verification_guess \in [Procs -> Verification!Ids \cup {Verification!NoId}]
    /\ rec \in [Procs -> Verification!Ids \cup {Verification!NoId}]
         /\ DOMAIN verification_latest = Procs
    /\ verification_held \in [Procs -> SUBSET Verification!Ids]
    /\ bonuses \subseteq {"signup-bonus"}

\* What an open transaction has taken is live and of its contact, so nobody consumes it.
CodeTaken ==
    \A p \in Procs : \A i \in verification_held[p] :
        verification_pc[p] = "insert" /\ verification_records[i].state = "live"
          /\ verification_records[i].channel = chan[p]

\* What a verification has read and done by the time it comes to a statement.
CodeRead ==
    \A p \in Procs :
        /\ verification_pc[p] \in {"compare", "uncool", "mark", "bonus"}
             <=> rec[p] # Verification!NoId
        /\ rec[p] # Verification!NoId => verification_records[rec[p]].state # "none"
        /\ verification_pc[p] \in {"uncool", "mark", "bonus"}
             => verification_records[rec[p]].state = "verified"
        /\ verification_pc[p] = "bonus" => chan[p] \in verified

CodeInv == Verification!TypeOK /\ CodeShape /\ CodeTaken /\ CodeRead
  /\ Verification!VerifiedByCode /\ (bonuses # {} => verified # {})

\* The guesses being compared count as attempts to come.
Comparing(i) == {p \in Procs : verification_pc[p] = "compare" /\ rec[p] = i}
CodeCapped == \A i \in Verification!Ids :
    verification_records[i].attempts + Cardinality(Comparing(i)) < MaxAttempts + Cardinality(Procs)

LEMMA VerificationFinite ==
  ASSUME NEW S PROVE Verification!IsFiniteSet(S) = IsFiniteSet(S)
  BY Zenon DEF Verification!IsFiniteSet, IsFiniteSet
LEMMA VerificationCount == ASSUME NEW S PROVE Verification!Cardinality(S) = Cardinality(S)
  BY Zenon DEF Verification!Cardinality, Cardinality

\* The newest of some records is one of them.
LEMMA NewestIn ==
    ASSUME Verification!VerificationAssumption, NEW S \in SUBSET Verification!Ids, S # {}
             PROVE Verification!Newest(S) \in S
<1>. DEFINE T == {MaxIssues - i : i \in S}
            R == {ss \in Nat \X Nat : ss[1] < ss[2]}
<1>1. IsWellFoundedOn(R, Nat)
  BY NatLessThanWellFounded DEF OpToRel
<1>2. T \subseteq Nat /\ T # {}
  <2>1. \A i \in S : MaxIssues - i \in Nat
    BY DEF Verification!Ids, Verification!VerificationAssumption
  <2>2. PICK i \in S : TRUE
    OBVIOUS
  <2>. QED
    BY <2>1, <2>2
<1>3. PICK t \in T : \A y \in T : ~ (<<y, t>> \in R)
  <2>. HIDE DEF R, T
  <2>. QED
    BY <1>1, <1>2, WFMin
<1>4. \A y \in T : ~ (y < t)
  BY <1>2, <1>3
<1>5. PICK x \in S : t = MaxIssues - x
  OBVIOUS
<1>6. ASSUME NEW i \in S PROVE x >= i
  <2>1. MaxIssues - i \in T /\ i \in Int /\ x \in Int /\ MaxIssues \in Int
    BY DEF Verification!Ids, Verification!VerificationAssumption
  <2>2. ~ (MaxIssues - i < MaxIssues - x)
    BY <1>4, <1>5, <2>1
  <2>. QED
    BY <2>1, <2>2
<1>. QED
  BY <1>6 DEF Verification!Max, Verification!Newest

\* What Find looks at is a record of the contact.
LEMMA CandidateOfContact ==
    ASSUME Verification!VerificationAssumption, NEW c,
             Verification!Candidate(c) # Verification!NoId
    PROVE  Verification!Candidate(c) \in Verification!OfChannel(c)
             /\ Verification!Candidate(c) \in Verification!Ids
BY NewestIn DEF Verification!Candidate, Verification!Newest, Verification!OfChannel

\* The initial states.
LEMMA CodeInvInit == ASSUME Verification!VerificationAssumption, Verification!Init
  PROVE CodeInv /\ CodeCapped
<1>1. (CHOOSE c \in Channels : TRUE) \in Channels
  BY DEF Verification!VerificationAssumption
<1>2. \A i \in Verification!Ids : Cardinality(Comparing(i)) = 0
  <2>1. \A i \in Verification!Ids : Comparing(i) = {}
    BY DEF Verification!Init, Comparing
  <2>. QED
    BY <2>1, FS_EmptySet
<1>3. Cardinality(Procs) \in Nat
  BY FS_CardinalityType, VerificationFinite DEF Verification!VerificationAssumption
<1>4. CodeCapped
  BY <1>1, <1>2, <1>3 DEF Verification!Init, CodeCapped, Verification!VerificationAssumption
<1>5. CodeShape
  <2>1. verification_records \in [Verification!Ids
        -> [state : {"none", "live", "expired", "verified"},
                              channel : Channels, attempts : Nat, used : Nat]]
    BY <1>1 DEF Verification!Init
  <2>2. verification_pc \in [Procs -> {"idle"}]
        /\ verification_held \in [Procs -> SUBSET Verification!Ids]
    BY DEF Verification!Init
  <2>. QED
    BY <1>1, <2>1, <2>2 DEF Verification!Init, CodeShape
<1>6. Verification!TypeOK
  <2>1. \A i \in Verification!Ids : /\ verification_records[i].state = "none"
                                       /\ verification_records[i].used = 0
                                    /\ verification_records[i].channel \in Channels
                                         /\ verification_records[i].attempts \in Nat
    BY <1>1 DEF Verification!Init
  <2>2. \A p \in Procs : verification_held[p] = {} /\ rec[p] = Verification!NoId
    BY DEF Verification!Init
  <2>3. verification_faults \in 0 .. MaxFaults
    BY DEF Verification!Init, Verification!VerificationAssumption
  <2>4. \A i \in Verification!Ids :
          /\ verification_records[i].state \in {"none", "live", "expired", "verified"}
          /\ verification_records[i].channel \in Channels
               /\ verification_records[i].attempts \in Nat
          /\ verification_records[i].state = "verified" <=> verification_records[i].used > 0
    BY <2>1
  <2>5. \A p, q \in Procs : verification_held[p] \cap verification_held[q] = {}
    BY <2>2
  <2>6. registered \in BOOLEAN /\ verified \subseteq Channels
        /\ verification_cooldown \subseteq Channels
    BY DEF Verification!Init
  <2>. QED
    BY <2>2, <2>3, <2>4, <2>5, <2>6 DEF Verification!TypeOK
<1>. QED
  BY <1>4, <1>5, <1>6 DEF Verification!Init, CodeInv, CodeTaken, CodeRead,
       Verification!VerifiedByCode

\* What Insert does to a row.
LEMMA IssuedRow ==
    ASSUME CodeInv, NEW p \in Procs, NEW i \in Verification!Ids, NEW j \in Verification!Ids,
             verification_records[i].state = "none"
    PROVE  /\ Verification!Issued(p, i, j) \in [state : {"none", "live", "expired", "verified"},
                                   channel : Channels, attempts : Nat, used : Nat]
           /\ Verification!Issued(p, i, j).used = verification_records[j].used
           /\ Verification!Issued(p, i, j).attempts = verification_records[j].attempts
           /\ Verification!Issued(p, i, j).state = "verified"
                <=> verification_records[j].state = "verified"
           /\ Verification!Issued(p, i, j).state = "none"
                => verification_records[j].state = "none"
           /\ j # i => Verification!Issued(p, i, j).channel = verification_records[j].channel
           /\ j # i /\ j \notin verification_held[p]
                => Verification!Issued(p, i, j).state = verification_records[j].state
<1>0. /\ verification_records[j] \in [state : {"none", "live", "expired", "verified"},
                         channel : Channels, attempts : Nat, used : Nat]
      /\ chan[p] \in Channels
           /\ (j \in verification_held[p] => verification_records[j].state = "live")
  BY DEF CodeInv, CodeShape, CodeTaken
<1>1. CASE j = i
  <2>. DEFINE row == [verification_records[j] EXCEPT !.state = "live", !.channel = chan[p]]
  <2>1. Verification!Issued(p, i, j) = row
    BY <1>0, <1>1 DEF Verification!Issued
  <2>2. /\ row \in [state : {"none", "live", "expired", "verified"},
                    channel : Channels, attempts : Nat, used : Nat]
        /\ row.used = verification_records[j].used
             /\ row.attempts = verification_records[j].attempts
        /\ row.state = "live"
    BY <1>0, <1>1
  <2>. HIDE DEF row
  <2>. QED
    BY <1>1, <2>1, <2>2
<1>2. CASE j # i /\ j \in verification_held[p]
  <2>1. Verification!Issued(p, i, j) = [verification_records[j] EXCEPT !.state = "expired"]
    BY <1>2 DEF Verification!Issued
  <2>. QED
    BY <1>0, <1>2, <2>1
<1>3. CASE j # i /\ j \notin verification_held[p]
  <2>1. Verification!Issued(p, i, j) = verification_records[j]
    BY <1>3 DEF Verification!Issued
  <2>. QED
    BY <1>0, <1>3, <2>1
<1>. QED
  BY <1>1, <1>2, <1>3

\* Each step keeps a verified record with the contact it was made for.
LEMMA CodeInvStep == ASSUME Verification!VerificationAssumption, CodeInv,
  [Verification!Next]_(Verification!vars) PROVE CodeInv'
<1>. USE DEF CodeInv, Verification!TypeOK, CodeShape, CodeTaken, CodeRead,
     Verification!VerifiedByCode, Verification!OfChannel, Verification!Go,
       Verification!account, Verification!args
<1>. (CHOOSE c \in Channels : TRUE) \in Channels
  BY DEF Verification!VerificationAssumption
<1>. Verification!NoId \notin Verification!Ids
  BY DEF Verification!NoId, Verification!Ids
<1>1. ASSUME NEW p \in Procs, NEW c \in Channels, Verification!Register(p, c)
             \/ Verification!ResendOtp(p, c) PROVE CodeInv'
  <2>1. CASE Verification!Register(p, c)
    BY <2>1 DEF Verification!Register, Verification!Begin
  <2>2. CASE Verification!ResendOtp(p, c)
    BY <2>2 DEF Verification!ResendOtp, Verification!Begin
  <2>. QED
    BY <1>1, <2>1, <2>2
<1>2. ASSUME NEW p \in Procs, Verification!EnforceCooldown(p) PROVE CodeInv'
  <2>1. CASE Verification!End(p)
        /\ UNCHANGED <<Verification!account, verification_records, verification_cooldown,
             verification_faults>>
    BY <2>1 DEF Verification!End, Verification!Clear
  <2>2. CASE Verification!Go(p, "supersede")
        /\ UNCHANGED <<Verification!args, Verification!account, verification_records,
             verification_cooldown, verification_faults>>
    BY <1>2, <2>2 DEF Verification!EnforceCooldown
  <2>. QED
    BY <1>2, <2>1, <2>2, Zenon DEF Verification!EnforceCooldown
<1>3. ASSUME NEW p \in Procs, Verification!Supersede(p) PROVE CodeInv'
  BY <1>3 DEF Verification!Supersede, Verification!Locked
<1>4. ASSUME NEW p \in Procs, Verification!Insert(p) PROVE CodeInv'
  <2>1. PICK i \in Verification!Ids :
          /\ \A j \in Verification!Ids : verification_records[j].state = "none" <=> j >= i
          /\ verification_records' = [j \in Verification!Ids |-> Verification!Issued(p, i, j)]
    BY <1>4 DEF Verification!Insert
  <2>2. /\ verification_pc[p] = "insert"
             /\ verification_held' = [verification_held EXCEPT ![p] = {}]
                  /\ verification_pc' = [verification_pc EXCEPT ![p] = "cool"]
        /\ UNCHANGED <<Verification!account, verification_cooldown, chan, verification_guess,
             rec, verification_latest, verification_faults>>
    BY <1>4 DEF Verification!Insert
  <2>3. verification_records[i].state = "none"
    BY <2>1 DEF Verification!Ids, Verification!VerificationAssumption
  <2>4. \A q \in Procs : i # rec[q] /\ i \notin verification_held[q]
    BY <2>3
  <2>5. \A j \in Verification!Ids :
           /\ verification_records'[j] \in [state : {"none", "live", "expired", "verified"},
                               channel : Channels, attempts : Nat, used : Nat]
           /\ verification_records'[j].used = verification_records[j].used
           /\ verification_records'[j].state = "verified"
                <=> verification_records[j].state = "verified"
           /\ verification_records'[j].state = "none" => verification_records[j].state = "none"
           /\ j # i => verification_records'[j].channel = verification_records[j].channel
           /\ j # i /\ j \notin verification_held[p]
                => verification_records'[j].state = verification_records[j].state
    BY <2>1, <2>3, IssuedRow
  <2>6. verification_records' = [j \in Verification!Ids |-> verification_records'[j]]
    BY <2>1
  <2>7. CodeShape'
    BY <2>2, <2>5, <2>6
  <2>8. Verification!TypeOK'
    <3>1. \A j \in Verification!Ids :
          /\ verification_records'[j].state \in {"none", "live", "expired", "verified"}
                                      /\ verification_records'[j].channel \in Channels
                                           /\ verification_records'[j].attempts \in Nat
      BY <2>5
    <3>. QED
      BY <2>2, <2>4, <2>5, <3>1
  <2>9. CodeTaken'
    BY <2>2, <2>4, <2>5
  <2>10. CodeRead'
    BY <2>2, <2>4, <2>5
  <2>11. Verification!VerifiedByCode'
    BY <2>2, <2>3, <2>5
  <2>. QED
    BY <2>2, <2>7, <2>8, <2>9, <2>10, <2>11
<1>5. ASSUME NEW p \in Procs, Verification!StartCooldown(p) PROVE CodeInv'
  BY <1>5 DEF Verification!StartCooldown, Verification!End, Verification!Clear
<1>6. ASSUME NEW p \in Procs, NEW c \in Channels, NEW g \in Verification!Ids
             \cup {Verification!NoId}, Verification!VerifyOtp(p, c, g)
      PROVE  CodeInv'
  BY <1>6 DEF Verification!VerifyOtp, Verification!Begin
<1>7. ASSUME NEW p \in Procs, Verification!Find(p) PROVE CodeInv'
  <2>1. CASE Verification!End(p)
        /\ UNCHANGED <<Verification!account, verification_records, verification_cooldown,
             verification_faults>>
    BY <1>7, <2>1 DEF Verification!Find, Verification!End, Verification!Clear
  <2>2. CASE ~Verification!End(p)
    <3>. DEFINE i == Verification!Candidate(chan[p])
    <3>1. i # Verification!NoId /\ verification_pc[p] = "find"
          /\ verification_records[i].state = "live"
      BY <1>7, <2>2 DEF Verification!Find
    <3>2. i \in Verification!Ids /\ verification_records[i].channel = chan[p]
      BY <3>1, CandidateOfContact
    <3>. HIDE DEF i
    <3>3. /\ rec' = [rec EXCEPT ![p] = i]
               /\ verification_pc' = [verification_pc EXCEPT ![p] = "compare"]
          /\ DOMAIN verification_latest' = Procs
          /\ UNCHANGED <<chan, verification_guess, verification_held, Verification!account,
               verification_records, verification_cooldown, verification_faults>>
      BY <1>7, <2>2 DEF Verification!Find, i
    <3>. QED
      BY <3>1, <3>2, <3>3
  <2>. QED
    BY <1>7, <2>1, <2>2 DEF Verification!Find
<1>8. ASSUME NEW p \in Procs, Verification!Miss(p) PROVE CodeInv'
  BY <1>8 DEF Verification!Miss, Verification!End, Verification!Clear
<1>9. ASSUME NEW p \in Procs, Verification!Consume(p) PROVE CodeInv'
  BY <1>9 DEF Verification!Consume, Verification!Locked
<1>10. ASSUME NEW p \in Procs, Verification!DropCooldown(p) PROVE CodeInv'
  BY <1>10 DEF Verification!DropCooldown
<1>11. ASSUME NEW p \in Procs, Verification!Mark(p) PROVE CodeInv'
  BY <1>11 DEF Verification!Mark
<1>12. ASSUME NEW p \in Procs, Verification!Grant(p) PROVE CodeInv'
  BY <1>12 DEF Verification!Grant, Verification!BonusKey, Verification!End, Verification!Clear
<1>13. ASSUME NEW p \in Procs, Verification!Die(p) PROVE CodeInv'
  BY <1>13 DEF Verification!Die, Verification!End, Verification!Clear,
       Verification!VerificationAssumption
<1>14. ASSUME NEW i \in Verification!Ids, Verification!Expire(i) PROVE CodeInv'
  BY <1>14 DEF Verification!Expire, Verification!Locked
<1>15. ASSUME NEW c \in Channels, Verification!CooldownEnds(c) PROVE CodeInv'
  BY <1>15 DEF Verification!CooldownEnds
<1>16. CASE UNCHANGED Verification!vars
  BY <1>16 DEF Verification!vars
<1>. QED
  BY <1>1, <1>2, <1>3, <1>4, <1>5, <1>6, <1>7, <1>8, <1>9, <1>10, <1>11, <1>12, <1>13,
     <1>14, <1>15, <1>16 DEF Verification!Next, Verification!Step

\* A guess being compared becomes an attempt: each step keeps their sum below the bound.
LEMMA CodeCappedStep ==
  ASSUME Verification!VerificationAssumption, CodeInv, CodeCapped,
           [Verification!Next]_(Verification!vars) PROVE CodeCapped'
<1>. USE DEF CodeInv, Verification!TypeOK, CodeShape, CodeRead, Verification!Go,
     Verification!account, Verification!args
<1>0. Cardinality(Procs) \in Nat /\ MaxAttempts \in Nat
  BY FS_CardinalityType, VerificationFinite DEF Verification!VerificationAssumption
<1>a. \A i \in Verification!Ids : IsFiniteSet(Comparing(i)) /\ Cardinality(Comparing(i)) \in Nat
  BY FS_Subset, FS_CardinalityType, VerificationFinite DEF Comparing, Verification!VerificationAssumption
<1>b. ASSUME \A i \in Verification!Ids :
             /\ verification_records'[i].attempts = verification_records[i].attempts
                                         /\ Comparing(i)' \subseteq Comparing(i)
      PROVE  CodeCapped'
  <2>. SUFFICES ASSUME NEW i \in Verification!Ids
                PROVE  verification_records'[i].attempts + Cardinality(Comparing(i)')
                         < MaxAttempts + Cardinality(Procs)
    BY DEF CodeCapped
  <2>1. /\ Cardinality(Comparing(i)') <= Cardinality(Comparing(i))
        /\ Cardinality(Comparing(i)') \in Nat
    BY <1>a, <1>b, FS_Subset, FS_CardinalityType
  <2>. QED
    BY <1>0, <1>a, <1>b, <2>1 DEF CodeCapped
<1>1. ASSUME NEW p \in Procs, NEW c \in Channels, Verification!Register(p, c)
             \/ Verification!ResendOtp(p, c)
      PROVE  CodeCapped'
  BY <1>1, <1>b DEF Verification!Register, Verification!ResendOtp, Verification!Begin, Comparing
<1>2. ASSUME NEW p \in Procs,
             Verification!EnforceCooldown(p) \/ Verification!Supersede(p)
               \/ Verification!StartCooldown(p) \/ Verification!DropCooldown(p)
               \/ Verification!Mark(p) \/ Verification!Grant(p) \/ Verification!Die(p)
      PROVE  CodeCapped'
  BY <1>2, <1>b DEF Verification!EnforceCooldown, Verification!Supersede,
       Verification!StartCooldown, Verification!DropCooldown, Verification!Mark,
         Verification!Grant, Verification!Die,
     Verification!End, Verification!Clear, Comparing
<1>3. ASSUME NEW p \in Procs, Verification!Insert(p) PROVE CodeCapped'
  <2>1. PICK i \in Verification!Ids :
          /\ \A j \in Verification!Ids : verification_records[j].state = "none" <=> j >= i
          /\ verification_records' = [j \in Verification!Ids |-> Verification!Issued(p, i, j)]
    BY <1>3 DEF Verification!Insert
  <2>4. verification_records[i].state = "none"
    BY <2>1 DEF Verification!Ids, Verification!VerificationAssumption
  <2>3. \A j \in Verification!Ids :
        verification_records'[j].attempts = verification_records[j].attempts
    BY <2>1, <2>4, IssuedRow
  <2>2. verification_pc' = [verification_pc EXCEPT ![p] = "cool"] /\ UNCHANGED rec
    BY <1>3 DEF Verification!Insert
  <2>. QED
    BY <1>b, <2>2, <2>3 DEF Comparing
<1>4. ASSUME NEW p \in Procs, NEW c \in Channels, NEW g \in Verification!Ids
             \cup {Verification!NoId}, Verification!VerifyOtp(p, c, g)
      PROVE  CodeCapped'
  BY <1>4, <1>b DEF Verification!VerifyOtp, Verification!Begin, Comparing
<1>5. ASSUME NEW p \in Procs, Verification!Find(p) PROVE CodeCapped'
  <2>1. CASE Verification!End(p)
    BY <1>5, <1>b, <2>1 DEF Verification!Find, Verification!End, Verification!Clear, Comparing
  <2>2. CASE ~Verification!End(p)
    <3>1. PICK i \in Verification!Ids : i = Verification!Candidate(chan[p])
      BY <1>5, <2>2, CandidateOfContact DEF Verification!Find
    <3>0. verification_records[i].attempts < MaxAttempts
          /\ verification_records[i].attempts \in Nat
      BY <1>0, <1>5, <2>2, <3>1 DEF Verification!Find
    <3>2. rec' = [rec EXCEPT ![p] = i]
          /\ verification_pc' = [verification_pc EXCEPT ![p] = "compare"]
               /\ UNCHANGED verification_records
      BY <1>5, <2>2, <3>1 DEF Verification!Find
    <3>3. \A j \in Verification!Ids \ {i} : Comparing(j)' \subseteq Comparing(j)
      BY <3>2 DEF Comparing
    <3>4. Comparing(i)' \subseteq Procs
      BY DEF Comparing
    <3>5. \A j \in Verification!Ids : Cardinality(Comparing(j)') \in Nat
      BY FS_Subset, FS_CardinalityType, VerificationFinite DEF Comparing, Verification!VerificationAssumption
    <3>6. \A j \in Verification!Ids \ {i} :
          Cardinality(Comparing(j)') <= Cardinality(Comparing(j))
      BY <1>a, <3>3, FS_Subset
    <3>7. Cardinality(Comparing(i)') <= Cardinality(Procs)
      BY <3>4, FS_Subset, VerificationFinite DEF Verification!VerificationAssumption
    <3>8. SUFFICES ASSUME NEW j \in Verification!Ids
                   PROVE  verification_records[j].attempts + Cardinality(Comparing(j)')
                            < MaxAttempts + Cardinality(Procs)
      BY <3>2 DEF CodeCapped
    <3>9. CASE j = i
      BY <1>0, <3>0, <3>5, <3>7, <3>9
    <3>10. CASE j # i
      BY <1>0, <1>a, <3>5, <3>6, <3>10 DEF CodeCapped
    <3>. QED
      BY <3>9, <3>10
  <2>. QED
    BY <2>1, <2>2
<1>6. ASSUME NEW p \in Procs, Verification!Miss(p) \/ Verification!Consume(p) PROVE CodeCapped'
  <2>0. PICK i \in Verification!Ids : i = rec[p]
    BY <1>6 DEF Verification!Miss, Verification!Consume, Verification!NoId
  <2>1. p \in Comparing(i)
    BY <1>6, <2>0 DEF Verification!Miss, Verification!Consume, Comparing
  <2>2. /\ verification_records'[i].attempts = verification_records[i].attempts + 1
        /\ \A j \in Verification!Ids \ {i} :
             verification_records'[j].attempts = verification_records[j].attempts
    BY <1>6, <2>0 DEF Verification!Miss, Verification!Consume
  <2>3. verification_pc'[p] # "compare"
    BY <1>6 DEF Verification!Miss, Verification!Consume, Verification!End
  <2>4. /\ Comparing(i)' \subseteq Comparing(i) \ {p}
        /\ \A j \in Verification!Ids \ {i} : Comparing(j)' \subseteq Comparing(j)
    BY <1>6, <2>0, <2>3 DEF Verification!Miss, Verification!Consume, Verification!End,
         Verification!Clear, Comparing
  <2>5. /\ IsFiniteSet(Comparing(i) \ {p})
        /\ Cardinality(Comparing(i) \ {p}) = Cardinality(Comparing(i)) - 1
    BY <1>a, <2>1, FS_RemoveElement
  <2>6. Cardinality(Comparing(i)') <= Cardinality(Comparing(i)) - 1
    BY <2>4, <2>5, FS_Subset
  <2>7. \A j \in Verification!Ids \ {i} :
        Cardinality(Comparing(j)') <= Cardinality(Comparing(j))
    BY <1>a, <2>4, FS_Subset
  <2>8. \A j \in Verification!Ids : Cardinality(Comparing(j)') \in Nat
        /\ verification_records[j].attempts \in Nat
    BY FS_Subset, FS_CardinalityType, VerificationFinite DEF Comparing, Verification!VerificationAssumption
  <2>9. SUFFICES ASSUME NEW j \in Verification!Ids
                 PROVE  verification_records'[j].attempts + Cardinality(Comparing(j)')
                          < MaxAttempts + Cardinality(Procs)
    BY DEF CodeCapped
  <2>10. CASE j = i
    BY <1>0, <1>a, <2>1, <2>2, <2>6, <2>8, <2>10 DEF CodeCapped
  <2>11. CASE j # i
    BY <1>0, <1>a, <2>2, <2>7, <2>8, <2>11 DEF CodeCapped
  <2>. QED
    BY <2>10, <2>11
<1>7. ASSUME NEW i \in Verification!Ids, Verification!Expire(i) PROVE CodeCapped'
  BY <1>7, <1>b DEF Verification!Expire, Comparing
<1>8. ASSUME NEW c \in Channels, Verification!CooldownEnds(c) PROVE CodeCapped'
  BY <1>8, <1>b DEF Verification!CooldownEnds, Comparing
<1>9. CASE UNCHANGED Verification!vars
  BY <1>9, <1>b DEF Verification!vars, Comparing
<1>. QED
  BY <1>1, <1>2, <1>3, <1>4, <1>5, <1>6, <1>7, <1>8, <1>9
       DEF Verification!Next, Verification!Step

\* The inductive invariant.
LEMMA CodeInvHolds ==
  ASSUME Verification!VerificationAssumption
           PROVE Verification!Spec => [](CodeInv /\ CodeCapped)
<1>1. Verification!Init => CodeInv /\ CodeCapped
  BY CodeInvInit
<1>2. CodeInv /\ CodeCapped /\ [Verification!Next]_(Verification!vars)
      => (CodeInv /\ CodeCapped)'
  BY CodeInvStep, CodeCappedStep
<1>. QED
  BY <1>1, <1>2, PTL DEF Verification!Spec

\* However many guesses are made at once, a code is tried less than the cap and the
\* number of open calls together (OtpService.verifyCode reads the attempts before it
\* counts one more).
THEOREM GuessesStayBounded ==
  ASSUME Verification!VerificationAssumption
           PROVE Verification!Spec => []Verification!GuessesBounded
<1>1. CodeInv /\ CodeCapped => Verification!GuessesBounded
  <2>1. \A i \in Verification!Ids : Cardinality(Comparing(i)) \in Nat
    BY FS_Subset, FS_CardinalityType, VerificationFinite DEF Comparing, Verification!VerificationAssumption
  <2>2. Cardinality(Procs) \in Nat /\ MaxAttempts \in Nat
    BY FS_CardinalityType, VerificationFinite DEF Verification!VerificationAssumption
  <2>. QED
    BY <2>1, <2>2, VerificationCount DEF CodeInv, CodeShape, CodeCapped, Verification!GuessesBounded
<1>. QED
  BY <1>1, CodeInvHolds, PTL

\* A contact is verified by a code made for it, and the account has its sign-up bonus once,
\* and never before (AuthService.verifyOtp, OtpService.verifyCode).
THEOREM VerifiedHonestly ==
    ASSUME Verification!VerificationAssumption
             PROVE Verification!Spec
                     => [](Verification!TypeOK /\ Verification!VerifiedByCode
                       /\ Verification!BonusOnce)
<1>1. CodeInv => Verification!TypeOK /\ Verification!VerifiedByCode /\ Verification!BonusOnce
  <2>1. ASSUME CodeInv PROVE Cardinality(bonuses) <= 1
    <3>1. Cardinality({"signup-bonus"}) = 1 /\ IsFiniteSet({"signup-bonus"})
      BY FS_Singleton
    <3>2. bonuses \subseteq {"signup-bonus"}
      BY <2>1 DEF CodeInv, CodeShape
    <3>3. Cardinality(bonuses) <= Cardinality({"signup-bonus"})
      BY <3>1, <3>2, FS_Subset
    <3>. QED
      BY <3>1, <3>3
  <2>. QED
    BY <2>1, VerificationCount DEF CodeInv, Verification!BonusOnce
<1>. QED
  BY <1>1, CodeInvHolds, PTL

(* The codes of password resets (module ResetCodes). *)

ResetTypes ==
    /\ resetCodes_record \in [code : ResetCodes!Codes \cup {ResetCodes!NoCode}, attempts :
         0 .. MaxResetAttempts]
    /\ resetCodes_cooldown \in BOOLEAN /\ made \in 0 .. MaxResetIssues
         /\ out \subseteq 1 .. made
    /\ resetCodes_pc \in [Resetters
         -> {"idle", "set", "deliver", "cool", "drop", "compare", "del", "put"}]
    /\ resetCodes_guess \in [Resetters -> ResetCodes!Codes \cup {ResetCodes!NoCode}]
    /\ copy \in [Resetters
         -> [code : ResetCodes!Codes \cup {ResetCodes!NoCode}, attempts :
           0 .. MaxResetAttempts]]
    /\ wrong \in [ResetCodes!Codes -> Nat] /\ opened \in [ResetCodes!Codes -> Nat]
         /\ over \subseteq ResetCodes!Codes /\ raced \subseteq ResetCodes!Codes
    /\ guesses \in 0 .. MaxGuesses

\* Of a code that nothing raced: who has read its record still sees it, the record counts
\* the wrong guesses at it, and it has opened nothing before it is gone.
UnracedCode(c) ==
    /\ c \notin over => opened[c] = 0
    /\ opened[c] <= 1 /\ wrong[c] <= MaxResetAttempts
    /\ resetCodes_record.code = c
         => c \notin over /\ wrong[c] = resetCodes_record.attempts
    /\ \A p \in ResetCodes!Holders(c) : copy[p] = resetCodes_record

\* A call that has made a code and not stored it is the only one that knows it.
PendingCode(p) ==
    /\ copy[p].code \in 1 .. made /\ copy[p].attempts = 0
    /\ copy[p].code \notin over /\ wrong[copy[p].code] = 0
    /\ resetCodes_record.code # copy[p].code
    /\ \A q \in Resetters \ {p} :
          resetCodes_pc[q] \in {"set", "drop", "compare", "del", "put"}
            => copy[q].code # copy[p].code

HeldCode(p) ==
    /\ copy[p].code \in 1 .. made
    /\ resetCodes_pc[p] # "drop" => copy[p].attempts < MaxResetAttempts
    /\ resetCodes_pc[p] = "del" => resetCodes_guess[p] = copy[p].code

ResetInv ==
    /\ ResetTypes
    /\ resetCodes_record.code <= made
    /\ resetCodes_record.code = ResetCodes!NoCode => resetCodes_record.attempts = 0
    /\ \A c \in ResetCodes!Codes : c > made => c \notin over /\ wrong[c] = 0
    /\ \A c \in ResetCodes!Codes \ raced : UnracedCode(c)
    /\ \A p \in Resetters :
          /\ resetCodes_pc[p] = "set" => PendingCode(p)
          /\ resetCodes_pc[p] \in {"deliver", "cool"} => copy[p].code \in 1 .. made
          /\ resetCodes_pc[p] \in {"drop", "compare", "del", "put"} => HeldCode(p)

LEMMA ResetInvInit == ASSUME ResetCodes!ResetCodesAssumption PROVE ResetCodes!Init => ResetInv
<1> SUFFICES ASSUME ResetCodes!Init PROVE ResetInv
  OBVIOUS
<1>0. MaxResetAttempts \in Nat \ {0} /\ MaxResetIssues \in Nat /\ MaxGuesses \in Nat
  BY DEF ResetCodes!ResetCodesAssumption
<1>1. resetCodes_record = ResetCodes!Absent /\ made = 0 /\ out = {} /\ over = {} /\ raced = {}
      /\ resetCodes_cooldown = FALSE /\ guesses = 0
  BY DEF ResetCodes!Init
<1>2. resetCodes_pc \in [Resetters
      -> {"idle", "set", "deliver", "cool", "drop", "compare", "del", "put"}]
      /\ \A p \in Resetters : resetCodes_pc[p] = "idle" /\ copy[p] = ResetCodes!Absent
  BY DEF ResetCodes!Init
<1>3. /\ copy \in [Resetters
           -> [code : ResetCodes!Codes \cup {ResetCodes!NoCode}, attempts :
             0 .. MaxResetAttempts]]
      /\ resetCodes_record \in [code : ResetCodes!Codes \cup {ResetCodes!NoCode}, attempts :
           0 .. MaxResetAttempts]
      /\ resetCodes_guess \in [Resetters -> ResetCodes!Codes \cup {ResetCodes!NoCode}]
  BY <1>0 DEF ResetCodes!Init, ResetCodes!Absent
<1>4. /\ wrong \in [ResetCodes!Codes -> Nat] /\ opened \in [ResetCodes!Codes -> Nat]
      /\ \A c \in ResetCodes!Codes : wrong[c] = 0 /\ opened[c] = 0
  BY DEF ResetCodes!Init
<1>5. resetCodes_cooldown \in BOOLEAN
  BY <1>1, Zenon
<1>6. ResetTypes
  BY <1>0, <1>1, <1>2, <1>3, <1>4, <1>5 DEF ResetTypes
<1>7. ASSUME NEW c \in ResetCodes!Codes PROVE UnracedCode(c)
  BY <1>0, <1>1, <1>2, <1>4 DEF UnracedCode, ResetCodes!Holders, ResetCodes!Absent,
     ResetCodes!NoCode, ResetCodes!Codes
<1> QED BY <1>0, <1>1, <1>2, <1>4, <1>6, <1>7
     DEF ResetInv, ResetCodes!Absent, ResetCodes!NoCode, ResetCodes!Codes

LEMMA ResetTypeStep ==
  ASSUME ResetCodes!ResetCodesAssumption
           PROVE ResetInv /\ [ResetCodes!Next]_(ResetCodes!vars) => ResetTypes'
<1> SUFFICES ASSUME ResetInv, [ResetCodes!Next]_(ResetCodes!vars) PROVE ResetTypes'
  OBVIOUS
<1>0. MaxResetAttempts \in Nat \ {0} /\ MaxResetIssues \in Nat /\ MaxGuesses \in Nat
  BY DEF ResetCodes!ResetCodesAssumption
<1>i. ResetTypes
  BY DEF ResetInv
<1>u. ASSUME NEW S, ResetCodes!Under(S) PROVE raced' \subseteq ResetCodes!Codes
  BY <1>i, <1>u DEF ResetTypes, ResetCodes!Under
<1> USE <1>i DEF ResetTypes, ResetCodes!Codes, ResetCodes!NoCode, ResetCodes!Absent,
    ResetCodes!End, ResetCodes!Go, ResetCodes!ghosts, ResetCodes!Gone
<1>1. ASSUME NEW p \in Resetters, ResetCodes!EnforceCooldown(p) PROVE ResetTypes'
  BY <1>0, <1>1 DEF ResetCodes!EnforceCooldown
<1>2. ASSUME NEW p \in Resetters, ResetCodes!SetCode(p) PROVE ResetTypes'
  BY <1>0, <1>2, <1>u DEF ResetCodes!SetCode
<1>3. ASSUME NEW p \in Resetters, ResetCodes!Deliver(p) PROVE ResetTypes'
  <2>1. copy[p].code \in 1 .. made
    BY <1>3 DEF ResetCodes!Deliver, ResetInv
  <2> QED BY <1>0, <1>3, <2>1 DEF ResetCodes!Deliver
<1>4. ASSUME NEW p \in Resetters, ResetCodes!StartCooldown(p) PROVE ResetTypes'
  BY <1>0, <1>4 DEF ResetCodes!StartCooldown
<1>5. ASSUME NEW p \in Resetters, NEW g \in ResetCodes!Codes
             \cup {ResetCodes!NoCode}, ResetCodes!Get(p, g) PROVE ResetTypes'
  BY <1>0, <1>5 DEF ResetCodes!Get
<1>6. ASSUME NEW p \in Resetters, ResetCodes!Drop(p) PROVE ResetTypes'
  <2>1. over' \subseteq ResetCodes!Codes
    BY <1>0, <1>6 DEF ResetCodes!Drop
  <2>2. resetCodes_record' \in [code : ResetCodes!Codes \cup {ResetCodes!NoCode}, attempts :
        0 .. MaxResetAttempts]
    BY <1>0, <1>6 DEF ResetCodes!Drop
  <2> QED BY <1>0, <1>6, <1>u, <2>1, <2>2 DEF ResetCodes!Drop
<1>7. ASSUME NEW p \in Resetters, ResetCodes!Compare(p) PROVE ResetTypes'
  BY <1>0, <1>7 DEF ResetCodes!Compare
<1>8. ASSUME NEW p \in Resetters, ResetCodes!Del(p) PROVE ResetTypes'
  <2>1. over' \subseteq ResetCodes!Codes
    BY <1>0, <1>8 DEF ResetCodes!Del
  <2>2. resetCodes_record' \in [code : ResetCodes!Codes \cup {ResetCodes!NoCode}, attempts :
        0 .. MaxResetAttempts]
    BY <1>0, <1>8 DEF ResetCodes!Del
  <2>a. resetCodes_guess[p] \in ResetCodes!Codes
    BY <1>0, <1>8 DEF ResetCodes!Del, ResetInv, HeldCode
  <2>3. opened' \in [ResetCodes!Codes -> Nat]
    BY <1>0, <1>8, <2>a DEF ResetCodes!Del
  <2>4. resetCodes_cooldown' \in BOOLEAN
    BY <1>8, Zenon DEF ResetCodes!Del
  <2> QED BY <1>0, <1>8, <1>u, <2>1, <2>2, <2>3, <2>4 DEF ResetCodes!Del
<1>9. ASSUME NEW p \in Resetters, ResetCodes!Put(p) PROVE ResetTypes'
  <2>1. HeldCode(p) /\ resetCodes_pc[p] = "put"
    BY <1>9 DEF ResetCodes!Put, ResetInv
  <2>2. resetCodes_record' \in [code : ResetCodes!Codes \cup {ResetCodes!NoCode}, attempts :
        0 .. MaxResetAttempts]
    BY <1>0, <1>9, <2>1 DEF ResetCodes!Put, HeldCode
  <2>3. over' \subseteq ResetCodes!Codes /\ raced' \subseteq ResetCodes!Codes
    BY <1>9, <1>u DEF ResetCodes!Put
  <2>a. copy[p].code \in ResetCodes!Codes
    BY <1>0, <2>1 DEF HeldCode
  <2>4. wrong' \in [ResetCodes!Codes -> Nat]
    BY <1>0, <1>9, <2>a DEF ResetCodes!Put
  <2>5. /\ resetCodes_pc' = [resetCodes_pc EXCEPT ![p] = "idle"]
        /\ resetCodes_guess' = [resetCodes_guess EXCEPT ![p] = 0]
        /\ copy' = [copy EXCEPT ![p] = [code |-> 0, attempts |-> 0]]
        /\ UNCHANGED <<resetCodes_cooldown, made, out, opened, guesses>>
    BY <1>9 DEF ResetCodes!Put
  <2>6. resetCodes_pc' \in [Resetters
           -> {"idle", "set", "deliver", "cool", "drop", "compare", "del", "put"}]
        /\ resetCodes_guess' \in [Resetters -> ResetCodes!Codes \cup {ResetCodes!NoCode}]
    BY <1>0, <2>5
  <2>7. copy' \in [Resetters -> [code : ResetCodes!Codes \cup {ResetCodes!NoCode}, attempts :
             0 .. MaxResetAttempts]]
    BY <1>0, <2>5
  <2>8. resetCodes_cooldown' \in BOOLEAN /\ made' \in 0 .. MaxResetIssues /\ out' \subseteq 1 .. made'
        /\ opened' \in [ResetCodes!Codes -> Nat] /\ guesses' \in 0 .. MaxGuesses
    <3>1. resetCodes_cooldown' \in BOOLEAN
      BY <2>5, Zenon
    <3> QED BY <2>5, <3>1
  <2> QED BY <2>2, <2>3, <2>4, <2>6, <2>7, <2>8
<1>10. ASSUME NEW p \in Resetters, ResetCodes!Die(p) PROVE ResetTypes'
  BY <1>0, <1>10 DEF ResetCodes!Die
<1>11. CASE ResetCodes!Expire
  <2>1. over' \subseteq ResetCodes!Codes
    BY <1>0, <1>11 DEF ResetCodes!Expire
  <2>2. resetCodes_record' \in [code : ResetCodes!Codes \cup {ResetCodes!NoCode}, attempts :
        0 .. MaxResetAttempts]
    BY <1>0, <1>11 DEF ResetCodes!Expire
  <2> QED BY <1>0, <1>11, <1>u, <2>1, <2>2 DEF ResetCodes!Expire
<1>12. CASE ResetCodes!CooldownEnds
  BY <1>0, <1>12 DEF ResetCodes!CooldownEnds
<1>13. CASE UNCHANGED ResetCodes!vars
  BY <1>13 DEF ResetCodes!vars
<1> QED BY <1>1, <1>2, <1>3, <1>4, <1>5, <1>6, <1>7, <1>8, <1>9, <1>10, <1>11, <1>12, <1>13
     DEF ResetCodes!Next

\* A record that changes under the calls that hold it marks its code: of the others, who
\* holds a code that is not marked has read the record as it is, which is then another's.
LEMMA UnracedHolders ==
  ASSUME ResetInv, NEW S, ResetCodes!Under(S), NEW c \in ResetCodes!Codes \ raced',
         NEW q \in ResetCodes!Holders(c)
  PROVE  c \notin raced /\ q \notin S /\ copy[q] = resetCodes_record
<1>1. c \notin raced
  BY DEF ResetCodes!Under
<1>2. copy[q] = resetCodes_record /\ copy[q].code = c
  BY <1>1 DEF ResetInv, UnracedCode, ResetCodes!Holders
<1> QED BY <1>1, <1>2 DEF ResetCodes!Under

LEMMA ResetInvStep ==
  ASSUME ResetCodes!ResetCodesAssumption
  PROVE  ResetInv /\ [ResetCodes!Next]_(ResetCodes!vars) => ResetInv'
<1> SUFFICES ASSUME ResetInv, [ResetCodes!Next]_(ResetCodes!vars) PROVE ResetInv'
  OBVIOUS
<1>0. MaxResetAttempts \in Nat \ {0} /\ MaxResetIssues \in Nat /\ MaxGuesses \in Nat
  BY DEF ResetCodes!ResetCodesAssumption
<1>a. ResetTypes'
  BY ResetTypeStep
<1> DEFINE Rest(q) == /\ resetCodes_pc[q] = "set" => PendingCode(q)
                      /\ resetCodes_pc[q] \in {"deliver", "cool"} => copy[q].code \in 1 .. made
                      /\ resetCodes_pc[q] \in {"drop", "compare", "del", "put"} => HeldCode(q)
           Few == /\ resetCodes_record.code <= made
                  /\ resetCodes_record.code = ResetCodes!NoCode
                       => resetCodes_record.attempts = 0
                  /\ \A c \in ResetCodes!Codes : c > made => c \notin over /\ wrong[c] = 0
<1>b. SUFFICES /\ Few'
               /\ \A c \in ResetCodes!Codes \ raced' : UnracedCode(c)'
               /\ \A q \in Resetters : Rest(q)'
  BY <1>a DEF ResetInv
<1>i. ResetTypes /\ Few /\ (\A c \in ResetCodes!Codes \ raced : UnracedCode(c))
      /\ (\A q \in Resetters : Rest(q))
  BY DEF ResetInv
<1> USE <1>i DEF ResetTypes, ResetCodes!Codes, ResetCodes!NoCode, ResetCodes!Absent,
    ResetCodes!End, ResetCodes!Go, ResetCodes!ghosts, ResetCodes!Gone
<1> USE <1>0
<1>1. ASSUME NEW p \in Resetters, ResetCodes!EnforceCooldown(p)
      PROVE  Few' /\ (\A c \in ResetCodes!Codes \ raced' : UnracedCode(c)')
             /\ (\A q \in Resetters : Rest(q)')
  <2>1. Few'
    BY <1>1 DEF ResetCodes!EnforceCooldown
  <2>2. ASSUME NEW c \in ResetCodes!Codes \ raced' PROVE UnracedCode(c)'
    BY <1>1, <2>2 DEF ResetCodes!EnforceCooldown, UnracedCode, ResetCodes!Holders
  <2>3. /\ made' = made + 1 /\ made + 1 \in ResetCodes!Codes
        /\ made + 1 \notin over /\ wrong[made + 1] = 0
        /\ UNCHANGED <<resetCodes_record, resetCodes_guess, wrong, over>>
        /\ resetCodes_pc'[p] = "set" /\ copy'[p] = [code |-> made + 1, attempts |-> 0]
        /\ \A q \in Resetters \ {p} :
              resetCodes_pc'[q] = resetCodes_pc[q] /\ copy'[q] = copy[q]
    BY <1>1 DEF ResetCodes!EnforceCooldown
  <2>4. ASSUME NEW q \in Resetters, q # p,
               resetCodes_pc[q] \in {"set", "deliver", "cool", "drop", "compare", "del", "put"}
        PROVE  copy[q].code \in 1 .. made
    BY <2>4 DEF PendingCode, HeldCode
  <2>5. PendingCode(p)'
    BY <2>3, <2>4 DEF PendingCode
  <2>6. ASSUME NEW q \in Resetters, q # p PROVE Rest(q)'
    <3>1. ASSUME resetCodes_pc[q] = "set" PROVE PendingCode(q)'
      <4>1. PendingCode(q) /\ copy'[q] = copy[q] /\ copy[q].code \in 1 .. made'
        BY <2>3, <2>4, <2>6, <3>1
      <4>2. ASSUME NEW r \in Resetters \ {q},
                   resetCodes_pc'[r] \in {"set", "drop", "compare", "del", "put"}
            PROVE  copy'[r].code # copy[q].code
        <5>1. CASE r = p
          BY <2>3, <2>4, <2>6, <3>1, <5>1
        <5>2. CASE r # p
          BY <2>3, <4>1, <4>2, <5>2 DEF PendingCode
        <5> QED BY <5>1, <5>2
      <4> QED BY <2>3, <4>1, <4>2 DEF PendingCode
    <3> QED BY <2>3, <2>4, <2>6, <3>1 DEF HeldCode
  <2>7. ASSUME NEW q \in Resetters PROVE Rest(q)'
    BY <2>3, <2>5, <2>6
  <2> QED BY <2>1, <2>2, <2>7
<1>2. ASSUME NEW p \in Resetters, ResetCodes!SetCode(p)
      PROVE  Few' /\ (\A c \in ResetCodes!Codes \ raced' : UnracedCode(c)')
             /\ (\A q \in Resetters : Rest(q)')
  <2>0. PendingCode(p)
    BY <1>2 DEF ResetCodes!SetCode
  <2>1. Few'
    BY <1>2, <2>0 DEF ResetCodes!SetCode, PendingCode
  <2>2. ASSUME NEW c \in ResetCodes!Codes \ raced' PROVE UnracedCode(c)'
    <3>1. c \notin raced /\ UnracedCode(c)
      BY <1>2 DEF ResetCodes!SetCode, ResetCodes!Under
    <3>2. ASSUME NEW q \in ResetCodes!Holders(c)' PROVE FALSE
      <4>1. q \in ResetCodes!Holders(c) /\ q # p
        BY <1>2 DEF ResetCodes!SetCode, ResetCodes!Holders
      <4>2. ResetCodes!Under(Resetters \ {p})
        BY <1>2 DEF ResetCodes!SetCode
      <4>3. q \in Resetters
        BY <4>1 DEF ResetCodes!Holders
      <4> QED BY ONLY ResetInv, c \in ResetCodes!Codes \ raced', <4>1, <4>2, UnracedHolders, <4>3
    <3> QED BY <1>2, <2>0, <3>1, <3>2 DEF ResetCodes!SetCode, UnracedCode, PendingCode
  <2>3. ASSUME NEW q \in Resetters PROVE Rest(q)'
    BY <1>2, <2>0 DEF ResetCodes!SetCode, PendingCode, HeldCode
  <2> QED BY <2>1, <2>2, <2>3
<1>3. ASSUME NEW p \in Resetters, ResetCodes!Deliver(p) \/ ResetCodes!StartCooldown(p)
      PROVE  Few' /\ (\A c \in ResetCodes!Codes \ raced' : UnracedCode(c)')
             /\ (\A q \in Resetters : Rest(q)')
  <2>1. Few'
    BY <1>3 DEF ResetCodes!Deliver, ResetCodes!StartCooldown
  <2>0. /\ UNCHANGED <<resetCodes_record, made, wrong, opened, over, raced>>
        /\ resetCodes_pc[p] \in {"deliver", "cool"}
        /\ \/ resetCodes_pc'[p] = "cool" /\ copy' = copy
           \/ resetCodes_pc'[p] = "idle"
        /\ \A q \in Resetters \ {p} :
              /\ resetCodes_pc'[q] = resetCodes_pc[q] /\ copy'[q] = copy[q]
              /\ resetCodes_guess'[q] = resetCodes_guess[q]
    BY <1>3 DEF ResetCodes!Deliver, ResetCodes!StartCooldown
  <2>2. ASSUME NEW c \in ResetCodes!Codes \ raced' PROVE UnracedCode(c)'
    <3>1. UnracedCode(c)
      BY <2>0, <2>2
    <3>2. ASSUME NEW q \in ResetCodes!Holders(c)' PROVE copy'[q] = resetCodes_record'
      <4>1. q # p /\ q \in Resetters
        BY <2>0, <3>2 DEF ResetCodes!Holders
      <4>2. q \in ResetCodes!Holders(c)
        BY <2>0, <3>2, <4>1 DEF ResetCodes!Holders
      <4> QED BY <2>0, <3>1, <4>1, <4>2 DEF UnracedCode
    <3> QED BY <2>0, <3>1, <3>2 DEF UnracedCode
  <2>3. ASSUME NEW q \in Resetters PROVE Rest(q)'
    <3>1. ASSUME q # p, resetCodes_pc[q] = "set" PROVE PendingCode(q)'
      <4>1. PendingCode(q) /\ copy'[q] = copy[q]
        BY <2>0, <3>1
      <4>2. ASSUME NEW r \in Resetters \ {q},
                   resetCodes_pc'[r] \in {"set", "drop", "compare", "del", "put"}
            PROVE  copy'[r].code # copy[q].code
        <5>1. r # p
          BY <2>0, <4>2
        <5> QED BY <2>0, <4>1, <4>2, <5>1 DEF PendingCode
      <4> QED BY <2>0, <4>1, <4>2 DEF PendingCode
    <3> QED BY <2>0, <3>1 DEF HeldCode
  <2> QED BY <2>1, <2>2, <2>3
<1>4. ASSUME NEW p \in Resetters, NEW g \in ResetCodes!Codes \cup {ResetCodes!NoCode},
             ResetCodes!Get(p, g)
      PROVE  Few' /\ (\A c \in ResetCodes!Codes \ raced' : UnracedCode(c)')
             /\ (\A q \in Resetters : Rest(q)')
  <2>1. Few'
    BY <1>4 DEF ResetCodes!Get
  <2>2. ASSUME NEW c \in ResetCodes!Codes \ raced' PROVE UnracedCode(c)'
    BY <1>4 DEF ResetCodes!Get, UnracedCode, ResetCodes!Holders
  <2>3. ASSUME NEW q \in Resetters PROVE Rest(q)'
    BY <1>4 DEF ResetCodes!Get, PendingCode, HeldCode
  <2> QED BY <2>1, <2>2, <2>3
<1>5. ASSUME NEW p \in Resetters, ResetCodes!Drop(p)
      PROVE  Few' /\ (\A c \in ResetCodes!Codes \ raced' : UnracedCode(c)')
             /\ (\A q \in Resetters : Rest(q)')
  <2>1. Few'
    BY <1>5 DEF ResetCodes!Drop
  <2>2. ASSUME NEW c \in ResetCodes!Codes \ raced' PROVE UnracedCode(c)'
    <3>1. c \notin raced /\ UnracedCode(c)
      BY <1>5 DEF ResetCodes!Drop, ResetCodes!Under
    <3>2. ASSUME NEW q \in ResetCodes!Holders(c)' PROVE FALSE
      <4>1. q \in ResetCodes!Holders(c) /\ q # p
        BY <1>5 DEF ResetCodes!Drop, ResetCodes!Holders
      <4>2. ResetCodes!Under(Resetters \ {p})
        BY <1>5 DEF ResetCodes!Drop
      <4>3. q \in Resetters
        BY <4>1 DEF ResetCodes!Holders
      <4> QED BY ONLY ResetInv, c \in ResetCodes!Codes \ raced', <4>1, <4>2, UnracedHolders, <4>3
    <3> QED BY <1>5, <3>1, <3>2 DEF ResetCodes!Drop, UnracedCode
  <2>3. ASSUME NEW q \in Resetters PROVE Rest(q)'
    BY <1>5 DEF ResetCodes!Drop, PendingCode, HeldCode
  <2> QED BY <2>1, <2>2, <2>3
<1>6. ASSUME NEW p \in Resetters, ResetCodes!Compare(p)
      PROVE  Few' /\ (\A c \in ResetCodes!Codes \ raced' : UnracedCode(c)')
             /\ (\A q \in Resetters : Rest(q)')
  <2>1. Few'
    BY <1>6 DEF ResetCodes!Compare
  <2>2. ASSUME NEW c \in ResetCodes!Codes \ raced' PROVE UnracedCode(c)'
    BY <1>6 DEF ResetCodes!Compare, UnracedCode, ResetCodes!Holders
  <2>3. ASSUME NEW q \in Resetters PROVE Rest(q)'
    BY <1>6 DEF ResetCodes!Compare, PendingCode, HeldCode
  <2> QED BY <2>1, <2>2, <2>3
<1>7. ASSUME NEW p \in Resetters, ResetCodes!Del(p)
      PROVE  Few' /\ (\A c \in ResetCodes!Codes \ raced' : UnracedCode(c)')
             /\ (\A q \in Resetters : Rest(q)')
  <2>0. HeldCode(p) /\ resetCodes_guess[p] = copy[p].code
    BY <1>7 DEF ResetCodes!Del, HeldCode
  <2>1. Few'
    BY <1>7, <2>0 DEF ResetCodes!Del, HeldCode
  <2>2. ASSUME NEW c \in ResetCodes!Codes \ raced' PROVE UnracedCode(c)'
    <3>1. c \notin raced /\ UnracedCode(c)
      BY <1>7 DEF ResetCodes!Del, ResetCodes!Under
    <3>2. ASSUME NEW q \in ResetCodes!Holders(c)' PROVE FALSE
      <4>1. q \in ResetCodes!Holders(c) /\ q # p
        BY <1>7 DEF ResetCodes!Del, ResetCodes!Holders
      <4>2. ResetCodes!Under(Resetters \ {p})
        BY <1>7 DEF ResetCodes!Del
      <4>3. q \in Resetters
        BY <4>1 DEF ResetCodes!Holders
      <4> QED BY ONLY ResetInv, c \in ResetCodes!Codes \ raced', <4>1, <4>2, UnracedHolders, <4>3
    <3>3. c = copy[p].code => copy[p] = resetCodes_record /\ c \notin over /\ opened[c] = 0
      BY <1>7, <3>1 DEF ResetCodes!Del, ResetCodes!Holders, UnracedCode
    <3>4. /\ c = copy[p].code => c \in over' /\ opened'[c] = 1
          /\ c # copy[p].code => opened'[c] = opened[c]
          /\ c \notin over' => c \notin over
          /\ wrong' = wrong /\ resetCodes_record'.code # c
      BY <1>7, <2>0, <3>3 DEF ResetCodes!Del
    <3> QED BY <3>1, <3>2, <3>4 DEF UnracedCode
  <2>3. ASSUME NEW q \in Resetters PROVE Rest(q)'
    <3>1. /\ resetCodes_pc'[p] = "idle" /\ made' = made /\ wrong' = wrong
          /\ q # p => resetCodes_pc'[q] = resetCodes_pc[q] /\ copy'[q] = copy[q]
                      /\ resetCodes_guess'[q] = resetCodes_guess[q]
      BY <1>7 DEF ResetCodes!Del
    <3>2. ASSUME q # p, resetCodes_pc[q] = "set" PROVE PendingCode(q)'
      <4>1. PendingCode(q) /\ copy[p].code # copy[q].code
        BY <1>7, <3>2 DEF PendingCode, ResetCodes!Del
      <4>2. copy[q].code \notin over' /\ resetCodes_record'.code # copy[q].code
        BY <1>7, <2>0, <4>1 DEF PendingCode, ResetCodes!Del
      <4>3. \A r \in Resetters \ {q} :
               resetCodes_pc'[r] \in {"set", "drop", "compare", "del", "put"}
                 => copy'[r].code # copy'[q].code
        BY <1>7, <3>1, <3>2, <4>1 DEF PendingCode, ResetCodes!Del
      <4> QED BY <3>1, <3>2, <4>1, <4>2, <4>3 DEF PendingCode
    <3> QED BY <1>7, <3>1, <3>2 DEF HeldCode
  <2> QED BY <2>1, <2>2, <2>3
<1>8. ASSUME NEW p \in Resetters, ResetCodes!Put(p)
      PROVE  Few' /\ (\A c \in ResetCodes!Codes \ raced' : UnracedCode(c)')
             /\ (\A q \in Resetters : Rest(q)')
  <2>0. HeldCode(p) /\ copy[p].attempts < MaxResetAttempts /\ copy[p].code \in ResetCodes!Codes
        /\ resetCodes_record'
             = [code |-> copy[p].code, attempts |-> copy[p].attempts + 1]
    BY <1>8 DEF ResetCodes!Put, HeldCode
  <2>1. Few'
    BY <1>8, <2>0 DEF ResetCodes!Put, HeldCode
  <2>2. ASSUME NEW c \in ResetCodes!Codes \ raced' PROVE UnracedCode(c)'
    <3>1. c \notin raced /\ UnracedCode(c)
      BY <1>8 DEF ResetCodes!Put, ResetCodes!Under
    <3>2. ASSUME NEW q \in ResetCodes!Holders(c)' PROVE FALSE
      <4>1. q \in ResetCodes!Holders(c) /\ q # p
        BY <1>8 DEF ResetCodes!Put, ResetCodes!Holders
      <4>2. ResetCodes!Under(Resetters \ {p})
        BY <1>8 DEF ResetCodes!Put
      <4>3. q \in Resetters
        BY <4>1 DEF ResetCodes!Holders
      <4> QED BY ONLY ResetInv, c \in ResetCodes!Codes \ raced', <4>1, <4>2, UnracedHolders, <4>3
    <3>3. c = copy[p].code => copy[p] = resetCodes_record /\ c \notin over /\ opened[c] = 0
                              /\ wrong[c] = copy[p].attempts
      BY <1>8, <3>1 DEF ResetCodes!Put, ResetCodes!Holders, UnracedCode
    <3>4. /\ opened' = opened
          /\ c # copy[p].code => wrong'[c] = wrong[c] /\ (c \notin over' => c \notin over)
          /\ c = copy[p].code => wrong'[c] = wrong[c] + 1 /\ c \notin over'
      BY <1>8, <2>0, <3>3 DEF ResetCodes!Put
    <3> QED BY <2>0, <3>1, <3>2, <3>3, <3>4 DEF UnracedCode
  <2>3. ASSUME NEW q \in Resetters PROVE Rest(q)'
    <3>1. /\ resetCodes_pc'[p] = "idle" /\ made' = made
          /\ q # p => resetCodes_pc'[q] = resetCodes_pc[q] /\ copy'[q] = copy[q]
                      /\ resetCodes_guess'[q] = resetCodes_guess[q]
      BY <1>8 DEF ResetCodes!Put
    <3>2. ASSUME q # p, resetCodes_pc[q] = "set" PROVE PendingCode(q)'
      <4>1. PendingCode(q) /\ copy[p].code # copy[q].code
        BY <1>8, <3>2 DEF PendingCode, ResetCodes!Put
      <4>2. copy[q].code \notin over' /\ resetCodes_record'.code # copy[q].code
            /\ wrong'[copy[q].code] = wrong[copy[q].code]
        BY <1>8, <2>0, <4>1 DEF PendingCode, ResetCodes!Put
      <4>3. \A r \in Resetters \ {q} :
               resetCodes_pc'[r] \in {"set", "drop", "compare", "del", "put"}
                 => copy'[r].code # copy'[q].code
        BY <1>8, <3>1, <3>2, <4>1 DEF PendingCode, ResetCodes!Put
      <4> QED BY <3>1, <3>2, <4>1, <4>2, <4>3 DEF PendingCode
    <3> QED BY <1>8, <3>1, <3>2 DEF HeldCode
  <2> QED BY <2>1, <2>2, <2>3
<1>9. ASSUME NEW p \in Resetters, ResetCodes!Die(p)
      PROVE  Few' /\ (\A c \in ResetCodes!Codes \ raced' : UnracedCode(c)')
             /\ (\A q \in Resetters : Rest(q)')
  <2>1. Few'
    BY <1>9 DEF ResetCodes!Die
  <2>2. ASSUME NEW c \in ResetCodes!Codes \ raced' PROVE UnracedCode(c)'
    BY <1>9 DEF ResetCodes!Die, UnracedCode, ResetCodes!Holders
  <2>3. ASSUME NEW q \in Resetters PROVE Rest(q)'
    BY <1>9 DEF ResetCodes!Die, PendingCode, HeldCode
  <2> QED BY <2>1, <2>2, <2>3
<1>10. CASE ResetCodes!Expire
  <2>1. Few'
    BY <1>10 DEF ResetCodes!Expire
  <2>2. ASSUME NEW c \in ResetCodes!Codes \ raced' PROVE UnracedCode(c)'
    <3>1. c \notin raced /\ UnracedCode(c)
      BY <1>10 DEF ResetCodes!Expire, ResetCodes!Under
    <3>2. ASSUME NEW q \in ResetCodes!Holders(c)' PROVE FALSE
      <4>1. q \in ResetCodes!Holders(c)
        BY <1>10 DEF ResetCodes!Expire, ResetCodes!Holders
      <4>2. ResetCodes!Under(Resetters)
        BY <1>10 DEF ResetCodes!Expire
      <4>3. q \in Resetters
        BY <4>1 DEF ResetCodes!Holders
      <4> QED BY ONLY ResetInv, c \in ResetCodes!Codes \ raced', <4>1, <4>2, UnracedHolders, <4>3
    <3> QED BY <1>10, <3>1, <3>2 DEF ResetCodes!Expire, UnracedCode
  <2>3. ASSUME NEW q \in Resetters PROVE Rest(q)'
    BY <1>10 DEF ResetCodes!Expire, PendingCode, HeldCode
  <2> QED BY <2>1, <2>2, <2>3
<1>11. CASE ResetCodes!CooldownEnds
  BY <1>11 DEF ResetCodes!CooldownEnds, UnracedCode, ResetCodes!Holders, PendingCode, HeldCode
<1>12. CASE UNCHANGED ResetCodes!vars
  BY <1>12 DEF ResetCodes!vars, UnracedCode, ResetCodes!Holders, PendingCode, HeldCode
<1> QED BY <1>1, <1>2, <1>3, <1>4, <1>5, <1>6, <1>7, <1>8, <1>9, <1>10, <1>11, <1>12
     DEF ResetCodes!Next

\* However many calls enter codes, ask for new ones, die and meet expiries, a reset code whose
\* record nothing changed under a call that had read it is accepted once and meets no more
\* wrong guesses than the cap, and no other code comes back once it is used up, superseded or
\* expired (issuePasswordReset, consumePasswordReset).
THEOREM ResetCodesSafe ==
  ASSUME ResetCodes!ResetCodesAssumption
  PROVE  ResetCodes!Spec
           => [](ResetCodes!TypeOK /\ ResetCodes!SingleUse /\ ResetCodes!AttemptsCapped
             /\ ResetCodes!StaysGone)
<1>1. ResetInv => ResetCodes!TypeOK /\ ResetCodes!SingleUse /\ ResetCodes!AttemptsCapped
      /\ ResetCodes!StaysGone
  <2>. SUFFICES ASSUME ResetInv
                PROVE  ResetCodes!TypeOK /\ ResetCodes!SingleUse /\ ResetCodes!AttemptsCapped
                       /\ ResetCodes!StaysGone
    OBVIOUS
  <2>1. ResetCodes!TypeOK
    BY DEF ResetCodes!ResetCodesAssumption, ResetInv, ResetTypes, ResetCodes!TypeOK,
           ResetCodes!Codes, ResetCodes!NoCode
  <2>2. ResetCodes!SingleUse /\ ResetCodes!AttemptsCapped
    BY DEF ResetInv, UnracedCode, ResetCodes!SingleUse, ResetCodes!AttemptsCapped
  <2>3. ResetCodes!StaysGone
    BY DEF ResetInv, ResetTypes, UnracedCode, ResetCodes!StaysGone
  <2>. QED BY <2>1, <2>2, <2>3
<1> QED BY ResetInvInit, ResetInvStep, <1>1, PTL DEF ResetCodes!Spec

(* The accounts and their contacts (module Registration). *)

PlainContacts == Registration!Spell(Emails \cup Mobiles, {"plain"})
RegAccount == [made : BOOLEAN, email :
  Registration!Spell(Emails, {"plain"}) \cup {Registration!NoContact},
            mobile : Registration!Spell(Mobiles, {"plain"})
              \cup {Registration!NoContact}, rows : SUBSET Registration!Rows,
            verified : SUBSET PlainContacts, knows : BOOLEAN]
Contacted == [email : Registration!Spell(Emails, {"plain"}) \cup {Registration!NoContact},
           mobile : Registration!Spell(Mobiles, {"plain"}) \cup {Registration!NoContact}]
RegPoints == {"idle", "check", "create", "role", "wallet", "preference", "commit", "issue",
  "answer"}

RegTypes ==
    /\ users \in [UserIds -> RegAccount] /\ registration_pc \in [Procs -> RegPoints]
         /\ dto \in [Procs -> Contacted]
    /\ id \in [Procs -> UserIds \cup {Registration!NoId}]
    /\ registration_answer \in [Procs
         -> {"none", "email", "mobile", "conflict", "issued", "verified"}]
    /\ registration_faults \in 0 .. MaxFaults

RegAccounts ==
    /\ \A i \in Registration!Made : /\ users[i].rows = Registration!Rows
                                       /\ Registration!Contacts(users[i]) # {}
                                    /\ users[i].verified \subseteq Registration!Contacts(users[i])
    /\ \A i, j \in Registration!Made :
         Registration!Contacts(users[i]) \cap Registration!Contacts(users[j]) # {} => i = j
    /\ codes \cup resets \subseteq Registration!Made \X Registration!Typed
         /\ signed \subseteq Registration!Made

\* A transaction that is open has an id and contacts that no account has, and no other
\* transaction; a call that goes on is about an account that is there.
InFlight ==
    /\ \A p \in Procs : Registration!Open(p)
         => id[p] \in UserIds /\ id[p] \notin Registration!Made
    /\ \A p \in Procs, i \in Registration!Made : Registration!Open(p)
         => Registration!Contacts(users[i]) \cap Registration!Contacts(dto[p]) = {}
    /\ \A p, q \in Procs : Registration!Open(p) /\ Registration!Open(q) /\ p # q =>
          id[p] # id[q] /\ Registration!Contacts(dto[p]) \cap Registration!Contacts(dto[q]) = {}
    /\ \A p \in Procs : registration_pc[p] \notin {"idle", "answer"}
         => Registration!Contacts(dto[p]) # {}
    /\ \A p \in Procs : registration_pc[p] \in {"issue", "answer"}
         => id[p] \in Registration!Made
    /\ \A p \in Procs : registration_pc[p] = "answer" => users[id[p]].verified # {}

Answers ==
    \A p \in Procs :
        /\ registration_answer[p] = "email"
             => \E i \in Registration!Made : dto[p].email \in Registration!Contacts(users[i])
        /\ registration_answer[p] = "mobile"
             => \E i \in Registration!Made : dto[p].mobile \in Registration!Contacts(users[i])
        /\ registration_answer[p] = "conflict"
             => \E i \in Registration!Made :
               Registration!Contacts(users[i]) \cap Registration!Contacts(dto[p]) # {}

RegInv == RegTypes /\ RegAccounts /\ InFlight /\ Answers

LEMMA NoneIsNone == \A x : Registration!NoContact # <<x, "plain">>
  /\ Registration!NoContact # <<x, "odd">>
  BY DEF Registration!NoContact

LEMMA Find1 ==
  ASSUME NEW t, Registration!Held(t)
  PROVE  Registration!Find(t) \in UserIds /\ Registration!Find(t) \in Registration!Made
           /\ Registration!Normal(t) \in Registration!Contacts(users[Registration!Find(t)])
<1>1. PICK i \in Registration!Made :
      Registration!Contacts(users[i]) \cap {Registration!Normal(t)} # {}
  BY DEF Registration!Held, Registration!Holders
<1>2. Registration!Normal(t) \in Registration!Contacts(users[i])
  BY <1>1
<1>3. Registration!Find(t) \in Registration!Made
      /\ Registration!Normal(t) \in Registration!Contacts(users[Registration!Find(t)])
  BY <1>1, <1>2, Zenon DEF Registration!Find
<1> QED BY <1>3 DEF Registration!Made

LEMMA RegInvInit == ASSUME Registration!RegistrationAssumption PROVE Registration!Init => RegInv
<1> SUFFICES ASSUME Registration!Init PROVE RegInv
  OBVIOUS
<1>1. /\ Registration!NoUser.made = FALSE
           /\ Registration!NoUser.email = Registration!NoContact
                /\ Registration!NoUser.mobile = Registration!NoContact
      /\ Registration!NoUser.rows = {} /\ Registration!NoUser.verified = {}
           /\ Registration!NoUser.knows = TRUE
  BY DEF Registration!NoUser
<1>2. Registration!NoUser \in RegAccount
  <2>1. FALSE \in BOOLEAN /\ TRUE \in BOOLEAN
    OBVIOUS
  <2> QED BY <2>1 DEF Registration!NoUser, RegAccount
<1>3. users \in [UserIds -> RegAccount] /\ Registration!Made = {}
  BY <1>1, <1>2 DEF Registration!Init, Registration!Made
<1>4. dto \in [Procs -> Contacted]
  BY DEF Registration!Init, Contacted
<1>5. /\ registration_pc \in [Procs -> RegPoints]
           /\ id \in [Procs -> UserIds \cup {Registration!NoId}]
      /\ registration_answer \in [Procs
           -> {"none", "email", "mobile", "conflict", "issued", "verified"}]
      /\ \A p \in Procs : registration_pc[p] = "idle" /\ registration_answer[p] = "none"
  BY DEF Registration!Init, RegPoints
<1>6. registration_faults \in 0 .. MaxFaults /\ codes = {} /\ resets = {} /\ signed = {}
  BY DEF Registration!Init, Registration!RegistrationAssumption
<1> QED BY <1>3, <1>4, <1>5, <1>6
     DEF RegInv, RegTypes, RegAccounts, InFlight, Answers, Registration!Open

\* Steps that make no account and open no transaction: who is there stays, with the contacts
\* it has and the ones that are verified.
Kept ==
    \A i \in UserIds : /\ users'[i].made = users[i].made /\ users'[i].rows = users[i].rows
                       /\ users'[i].email = users[i].email /\ users'[i].mobile = users[i].mobile
                       /\ users[i].verified \subseteq users'[i].verified

LEMMA KeptIs ==
  ASSUME Kept PROVE Registration!Made' = Registration!Made
           /\ \A i \in UserIds : Registration!Contacts(users'[i]) =
                Registration!Contacts(users[i])
<1>1. Registration!Made' = Registration!Made
  BY DEF Kept, Registration!Made
<1>2. \A i \in UserIds : Registration!Contacts(users'[i]) = Registration!Contacts(users[i])
  BY DEF Kept, Registration!Contacts
<1> QED BY <1>1, <1>2

LEMMA RegQuiet ==
  ASSUME RegInv, Kept, NEW p \in Procs,
         \A q \in Procs : q # p
           => /\ registration_pc'[q] = registration_pc[q] /\ dto'[q] = dto[q]
                                   /\ id'[q] = id[q] /\ registration_answer'[q] =
                                        registration_answer[q],
         registration_pc'[p] \notin {"role", "wallet", "preference", "commit"}
           \/ UNCHANGED Registration!calls,
         registration_pc'[p] \notin {"idle", "answer"} => Registration!Contacts(dto'[p]) # {},
         registration_pc'[p] \in {"issue", "answer"} => id'[p] \in Registration!Made,
         registration_pc'[p] = "answer" => users'[id'[p]].verified # {},
         registration_answer'[p] = "email"
           => \E i \in Registration!Made : dto'[p].email \in Registration!Contacts(users[i]),
         registration_answer'[p] = "mobile"
           => \E i \in Registration!Made : dto'[p].mobile \in Registration!Contacts(users[i]),
         registration_answer'[p] = "conflict"
           => \E i \in Registration!Made :
             Registration!Contacts(users[i]) \cap Registration!Contacts(dto'[p]) # {}
  PROVE  InFlight' /\ Answers'
<1>1. Registration!Made' = Registration!Made /\ Registration!Made \subseteq UserIds
      /\ \A i \in UserIds : Registration!Contacts(users'[i]) = Registration!Contacts(users[i])
  BY KeptIs DEF Registration!Made
<1>2. \A q \in Procs : Registration!Open(q)'
      => Registration!Open(q) /\ id'[q] = id[q] /\ dto'[q] = dto[q]
  BY DEF Registration!Open, Registration!calls
<1>3. InFlight'
  <2>1. \A q \in Procs : Registration!Open(q)'
        => id'[q] \in UserIds /\ id'[q] \notin Registration!Made'
    BY <1>1, <1>2 DEF RegInv, InFlight
  <2>2. \A q \in Procs, i \in Registration!Made' : Registration!Open(q)'
        => Registration!Contacts(users'[i]) \cap Registration!Contacts(dto'[q]) = {}
    BY <1>1, <1>2 DEF RegInv, InFlight
  <2>3. \A q, r \in Procs : Registration!Open(q)' /\ Registration!Open(r)' /\ q # r =>
           id'[q] # id'[r] /\ Registration!Contacts(dto'[q]) \cap Registration!Contacts(dto'[r]) = {}
    BY <1>2 DEF RegInv, InFlight
  <2>4. \A q \in Procs : registration_pc'[q] \notin {"idle", "answer"}
        => Registration!Contacts(dto'[q]) # {}
    BY DEF RegInv, InFlight
  <2>5. \A q \in Procs : registration_pc'[q] \in {"issue", "answer"}
        => id'[q] \in Registration!Made'
    BY <1>1 DEF RegInv, InFlight
  <2>6. \A q \in Procs : registration_pc'[q] = "answer" => users'[id'[q]].verified # {}
    BY <1>1, <2>5 DEF RegInv, InFlight, Kept
  <2> QED BY <2>1, <2>2, <2>3, <2>4, <2>5, <2>6 DEF InFlight
<1>4. Answers'
  BY <1>1 DEF RegInv, Answers
<1> QED BY <1>3, <1>4

\* Opening a call, ending it and going on.

LEMMA RegCalls ==
  ASSUME RegTypes, NEW p \in Procs, NEW e, NEW m, NEW i \in UserIds
           \cup {Registration!NoId}, NEW where \in RegPoints,
         [email |-> e, mobile |-> m] \in Contacted, Registration!Call(p, e, m, i, where)
  PROVE  /\ registration_pc' \in [Procs -> RegPoints] /\ dto' \in [Procs -> Contacted]
         /\ id' \in [Procs -> UserIds \cup {Registration!NoId}]
         /\ registration_answer' \in [Procs
              -> {"none", "email", "mobile", "conflict", "issued", "verified"}]
         /\ registration_pc'[p] = where /\ dto'[p].email = e /\ dto'[p].mobile = m /\ id'[p] = i
         /\ registration_answer'[p] = "none"
         /\ \A q \in Procs : q # p
              => /\ registration_pc'[q] = registration_pc[q] /\ dto'[q] = dto[q]
                                      /\ id'[q] = id[q] /\ registration_answer'[q] =
                                           registration_answer[q]
  BY DEF RegTypes, Registration!Call, Registration!Go

LEMMA RegEnds ==
  ASSUME RegTypes, NEW p \in Procs,
         NEW a \in {"none", "email", "mobile", "conflict", "issued", "verified"},
           Registration!End(p, a)
  PROVE  /\ registration_pc' \in [Procs -> RegPoints] /\ dto' = dto /\ id' = id
         /\ registration_answer' \in [Procs
              -> {"none", "email", "mobile", "conflict", "issued", "verified"}]
         /\ registration_pc'[p] = "idle" /\ registration_answer'[p] = a
         /\ \A q \in Procs : q # p
              => registration_pc'[q] = registration_pc[q]
                /\ registration_answer'[q] = registration_answer[q]
  BY DEF RegTypes, Registration!End, Registration!Go, RegPoints

LEMMA Normals ==
  ASSUME NEW t \in Registration!Typed, Emails \cap Mobiles = {}
  PROVE  /\ Registration!Normal(t) # Registration!NoContact
         /\ t[1] \in Emails => Registration!Normal(t) \in Registration!Spell(Emails, {"plain"})
         /\ t[1] \notin Emails
              => Registration!Normal(t) \in Registration!Spell(Mobiles, {"plain"})
         /\ Registration!Normal(t) \in PlainContacts
              /\ Registration!Normal(t) \in Registration!Typed
<1>1. PICK x \in Emails \cup Mobiles, s \in {"plain", "odd"} : t = <<x, s>>
  BY DEF Registration!Typed, Registration!Spell
<1>2. t # Registration!NoContact /\ t[1] = x
  BY <1>1 DEF Registration!NoContact
<1>3. Registration!Normal(t) = <<x, "plain">>
  BY <1>2 DEF Registration!Normal
<1> QED BY <1>2, <1>3, NoneIsNone DEF Registration!Spell, PlainContacts, Registration!Typed

LEMMA CallsFor ==
  ASSUME RegTypes, Registration!RegistrationAssumption, NEW p \in Procs,
           NEW t \in Registration!Typed,
         NEW i \in UserIds, NEW where \in RegPoints, Registration!CallFor(p, t, i, where)
  PROVE  /\ registration_pc' \in [Procs -> RegPoints] /\ dto' \in [Procs -> Contacted]
         /\ id' \in [Procs -> UserIds \cup {Registration!NoId}]
         /\ registration_answer' \in [Procs
              -> {"none", "email", "mobile", "conflict", "issued", "verified"}]
         /\ registration_pc'[p] = where /\ id'[p] = i /\ registration_answer'[p] = "none"
              /\ Registration!Contacts(dto'[p]) # {}
         /\ \A q \in Procs : q # p
              => /\ registration_pc'[q] = registration_pc[q] /\ dto'[q] = dto[q]
                                      /\ id'[q] = id[q] /\ registration_answer'[q] =
                                           registration_answer[q]
<1>0. Emails \cap Mobiles = {}
  BY DEF Registration!RegistrationAssumption
<1>1. CASE t[1] \in Emails
  <2>1. [email |-> Registration!Normal(t), mobile |-> Registration!NoContact] \in Contacted
        /\ Registration!Normal(t) # Registration!NoContact
    BY <1>0, <1>1, Normals DEF Contacted
  <2>2. Registration!Call(p, Registration!Normal(t), Registration!NoContact, i, where)
    BY <1>1 DEF Registration!CallFor
  <2>3. dto'[p].email = Registration!Normal(t)
    BY <2>1, <2>2, RegCalls
  <2>4. Registration!Contacts(dto'[p]) # {}
    BY <2>1, <2>3 DEF Registration!Contacts
  <2> QED BY <2>1, <2>2, <2>4, RegCalls
<1>2. CASE t[1] \notin Emails
  <2>1. [email |-> Registration!NoContact, mobile |-> Registration!Normal(t)] \in Contacted
        /\ Registration!Normal(t) # Registration!NoContact
    BY <1>0, <1>2, Normals DEF Contacted
  <2>2. Registration!Call(p, Registration!NoContact, Registration!Normal(t), i, where)
    BY <1>2 DEF Registration!CallFor
  <2>3. dto'[p].mobile = Registration!Normal(t)
    BY <2>1, <2>2, RegCalls
  <2>4. Registration!Contacts(dto'[p]) # {}
    BY <2>1, <2>3 DEF Registration!Contacts
  <2> QED BY <2>1, <2>2, <2>4, RegCalls
<1> QED BY <1>1, <1>2

LEMMA Marked ==
  ASSUME RegTypes, NEW i \in UserIds, NEW v \in SUBSET PlainContacts,
         users' = [users EXCEPT ![i].verified = @ \cup v]
  PROVE  /\ users' \in [UserIds -> RegAccount] /\ Kept
         /\ users'[i].verified = users[i].verified \cup v
         /\ \A j \in UserIds : j # i => users'[j] = users[j]
<1>1. users[i] \in RegAccount
  BY DEF RegTypes
<1>2. [users[i] EXCEPT !.verified = @ \cup v] \in RegAccount
  BY <1>1 DEF RegAccount
<1>3. users' = [users EXCEPT ![i] = [users[i] EXCEPT !.verified = @ \cup v]]
  OBVIOUS
<1>4. users' \in [UserIds -> RegAccount] /\ \A j \in UserIds : j # i => users'[j] = users[j]
  BY <1>2, <1>3 DEF RegTypes
<1>5. users'[i] = [users[i] EXCEPT !.verified = @ \cup v]
  BY <1>3 DEF RegTypes
<1>6. /\ users'[i].made = users[i].made /\ users'[i].rows = users[i].rows
      /\ users'[i].email = users[i].email /\ users'[i].mobile = users[i].mobile
      /\ users'[i].verified = users[i].verified \cup v
  BY <1>1, <1>5 DEF RegAccount
<1> QED BY <1>4, <1>6 DEF Kept

LEMMA Knows ==
  ASSUME RegTypes, NEW i \in UserIds, NEW b \in BOOLEAN, users' = [users EXCEPT ![i].knows = b]
  PROVE  /\ users' \in [UserIds -> RegAccount] /\ Kept
         /\ \A j \in UserIds : users'[j].verified = users[j].verified
<1>1. users[i] \in RegAccount
  BY DEF RegTypes
<1>2. [users[i] EXCEPT !.knows = b] \in RegAccount
  BY <1>1 DEF RegAccount
<1>3. users' = [users EXCEPT ![i] = [users[i] EXCEPT !.knows = b]]
  OBVIOUS
<1>4. users' \in [UserIds -> RegAccount] /\ \A j \in UserIds : j # i => users'[j] = users[j]
  BY <1>2, <1>3 DEF RegTypes
<1>5. users'[i] = [users[i] EXCEPT !.knows = b]
  BY <1>3 DEF RegTypes
<1>6. /\ users'[i].made = users[i].made /\ users'[i].rows = users[i].rows
      /\ users'[i].email = users[i].email /\ users'[i].mobile = users[i].mobile
      /\ users'[i].verified = users[i].verified
  BY <1>1, <1>5 DEF RegAccount
<1> QED BY <1>4, <1>6 DEF Kept

LEMMA AccountsStep ==
  ASSUME RegAccounts, Kept,
         \A i \in Registration!Made :
           users'[i].verified \subseteq Registration!Contacts(users[i]),
         codes' \cup resets' \subseteq Registration!Made \X Registration!Typed,
           signed' \subseteq Registration!Made
  PROVE  RegAccounts'
<1>1. Registration!Made' = Registration!Made /\ Registration!Made \subseteq UserIds
      /\ \A i \in UserIds : Registration!Contacts(users'[i]) = Registration!Contacts(users[i])
  BY KeptIs DEF Registration!Made
<1>2. \A i \in Registration!Made : users'[i].rows = users[i].rows
  BY <1>1 DEF Kept
<1> QED BY <1>1, <1>2 DEF RegAccounts

LEMMA RegSame ==
  ASSUME users' = users PROVE Kept
  BY DEF Kept

LEMMA RegFaults ==
  ASSUME Registration!RegistrationAssumption, registration_faults \in 0 .. MaxFaults,
           Registration!Fault \/ UNCHANGED registration_faults
  PROVE  registration_faults' \in 0 .. MaxFaults
  BY DEF Registration!RegistrationAssumption, Registration!Fault

LEMMA RegInvStep == ASSUME Registration!RegistrationAssumption
  PROVE RegInv /\ [Registration!Next]_(Registration!vars) => RegInv'
<1> SUFFICES ASSUME RegInv, [Registration!Next]_(Registration!vars) PROVE RegInv'
  OBVIOUS
<1>0. /\ Emails \cap Mobiles = {} /\ MaxFaults \in Nat /\ Registration!NoId \notin UserIds
      /\ Registration!Made \subseteq UserIds /\ RegTypes /\ RegAccounts /\ InFlight /\ Answers
  BY DEF Registration!RegistrationAssumption, Registration!Made, RegInv, Registration!NoId
<1>1. ASSUME NEW p \in Procs, NEW e \in Registration!Spell(Emails, {"plain", "odd"})
             \cup {Registration!NoContact},
             NEW m \in Registration!Spell(Mobiles, {"plain", "odd"})
               \cup {Registration!NoContact}, Registration!Register(p, e, m)
      PROVE  RegInv'
  <2>1. /\ e = Registration!NoContact => Registration!Normal(e) = Registration!NoContact
        /\ e # Registration!NoContact => e \in Registration!Typed /\ e[1] \in Emails
    BY DEF Registration!Normal, Registration!Spell, Registration!Typed
  <2>2. /\ m = Registration!NoContact => Registration!Normal(m) = Registration!NoContact
        /\ m # Registration!NoContact => m \in Registration!Typed /\ m[1] \notin Emails
    BY <1>0 DEF Registration!Normal, Registration!Spell, Registration!Typed
  <2>3. [email |-> Registration!Normal(e), mobile |-> Registration!Normal(m)] \in Contacted
    BY <1>0, <2>1, <2>2, Normals DEF Contacted
  <2>4. Registration!Normal(e) # Registration!NoContact
        \/ Registration!Normal(m) # Registration!NoContact
    BY <1>0, <1>1, <2>1, <2>2, Normals DEF Registration!Register
  <2>5. /\ Registration!Call(p, Registration!Normal(e), Registration!Normal(m),
             Registration!NoId, "check") /\ "check" \in RegPoints
        /\ UNCHANGED <<users, codes, resets, signed, registration_faults>>
    BY <1>1 DEF Registration!Register, RegPoints
  <2>6. /\ registration_pc' \in [Procs -> RegPoints] /\ dto' \in [Procs -> Contacted]
        /\ id' \in [Procs -> UserIds \cup {Registration!NoId}]
        /\ registration_answer' \in [Procs
             -> {"none", "email", "mobile", "conflict", "issued", "verified"}]
        /\ registration_pc'[p] = "check" /\ dto'[p].email = Registration!Normal(e)
             /\ dto'[p].mobile = Registration!Normal(m)
        /\ id'[p] = Registration!NoId /\ registration_answer'[p] = "none"
        /\ \A q \in Procs : q # p
             => /\ registration_pc'[q] = registration_pc[q] /\ dto'[q] = dto[q]
                                     /\ id'[q] = id[q] /\ registration_answer'[q] =
                                          registration_answer[q]
    BY <1>0, <2>3, <2>5, RegCalls
  <2>7. RegTypes'
    BY <1>0, <2>5, <2>6 DEF RegTypes
  <2>8. RegAccounts' /\ Kept
    BY <1>0, <2>5, AccountsStep, RegSame DEF RegAccounts
  <2>9. Registration!Contacts(dto'[p]) # {}
    BY <2>4, <2>6 DEF Registration!Contacts
  <2>10. InFlight' /\ Answers'
    BY <2>6, <2>8, <2>9, RegQuiet
  <2> QED BY <2>7, <2>8, <2>10 DEF RegInv
<1>2. ASSUME NEW p \in Procs, Registration!Check(p) PROVE RegInv'
  <2>0. UNCHANGED <<users, codes, resets, signed, registration_faults>>
        /\ registration_pc[p] = "check"
    BY <1>2 DEF Registration!Check
  <2>1. RegAccounts' /\ Kept
    BY <1>0, <2>0, AccountsStep, RegSame DEF RegAccounts
  <2>2. CASE Registration!Holders(Registration!Contacts(dto[p])) = {}
    <3>1. registration_pc' = [registration_pc EXCEPT ![p] = "create"]
          /\ UNCHANGED <<dto, id, registration_answer>>
      BY <1>2, <2>2 DEF Registration!Check, Registration!Go
    <3>2. RegTypes'
      BY <1>0, <2>0, <3>1 DEF RegTypes, RegPoints
    <3>3. Registration!Contacts(dto'[p]) # {} /\ registration_pc'[p] = "create"
      BY <1>0, <2>0, <3>1 DEF InFlight, RegTypes
    <3>4. /\ registration_answer'[p] = "email"
               => \E i \in Registration!Made : dto'[p].email \in Registration!Contacts(users[i])
          /\ registration_answer'[p] = "mobile"
               => \E i \in Registration!Made :
                 dto'[p].mobile \in Registration!Contacts(users[i])
          /\ registration_answer'[p] = "conflict"
               => \E i \in Registration!Made :
                 Registration!Contacts(users[i]) \cap Registration!Contacts(dto'[p]) # {}
      BY <1>0, <3>1 DEF Answers
    <3>5. \A q \in Procs : q # p
          => /\ registration_pc'[q] = registration_pc[q] /\ dto'[q] = dto[q]
                                    /\ id'[q] = id[q] /\ registration_answer'[q] =
                                         registration_answer[q]
      BY <3>1
    <3>6. InFlight' /\ Answers'
      BY <2>1, <3>3, <3>4, <3>5, RegQuiet
    <3> QED BY <2>1, <3>2, <3>6 DEF RegInv
  <2>3. ASSUME NEW i \in Registration!Holders(Registration!Contacts(dto[p])),
               Registration!End(p, Registration!Taken(p, i)) PROVE RegInv'
    <3>1. Registration!Taken(p, i) \in {"email", "mobile"} /\ i \in Registration!Made
      BY DEF Registration!Taken, Registration!Holders
    <3>2. /\ registration_pc' \in [Procs -> RegPoints] /\ dto' = dto /\ id' = id
          /\ registration_answer' \in [Procs
               -> {"none", "email", "mobile", "conflict", "issued", "verified"}]
          /\ registration_pc'[p] = "idle" /\ registration_answer'[p] = Registration!Taken(p, i)
          /\ \A q \in Procs : q # p
               => registration_pc'[q] = registration_pc[q]
                 /\ registration_answer'[q] = registration_answer[q]
      BY <1>0, <2>3, <3>1, RegEnds
    <3>3. RegTypes'
      BY <1>0, <2>0, <3>2 DEF RegTypes
    <3>4. Registration!Taken(p, i) = "email" => dto[p].email \in Registration!Contacts(users[i])
      BY DEF Registration!Taken, Registration!Contacts
    <3>5. Registration!Taken(p, i) = "mobile"
          => dto[p].mobile \in Registration!Contacts(users[i])
      <4>1. SUFFICES ASSUME Registration!Taken(p, i) = "mobile"
            PROVE dto[p].mobile \in Registration!Contacts(users[i])
        OBVIOUS
      <4>2. PICK c : c \in Registration!Contacts(users[i])
            /\ c \in Registration!Contacts(dto[p])
        BY DEF Registration!Holders
      <4>3. users[i] \in RegAccount /\ dto[p] \in Contacted
        BY <1>0, <3>1 DEF RegTypes
      <4>4. CASE c = dto[p].mobile
        BY <4>2, <4>4
      <4>5. CASE c = dto[p].email
        <5>1. c # Registration!NoContact /\ users[i].email # c
          BY <4>1, <4>2, <4>5 DEF Registration!Taken, Registration!Contacts
        <5>2. c = users[i].mobile
          BY <4>2, <5>1 DEF Registration!Contacts
        <5>3. c \in Registration!Spell(Emails, {"plain"})
              /\ c \in Registration!Spell(Mobiles, {"plain"})
          BY <4>3, <4>5, <5>1, <5>2 DEF RegAccount, Contacted
        <5> QED BY <1>0, <5>3 DEF Registration!Spell
      <4> QED BY <4>2, <4>4, <4>5 DEF Registration!Contacts
    <3>6. InFlight' /\ Answers'
      BY <2>1, <3>1, <3>2, <3>4, <3>5, RegQuiet
    <3> QED BY <2>1, <3>3, <3>6 DEF RegInv
  <2>4. Registration!Holders(Registration!Contacts(dto[p])) = {}
        \/ \E i \in Registration!Holders(Registration!Contacts(dto[p])) :
             Registration!End(p, Registration!Taken(p, i))
    <3> HIDE DEF Registration!Contacts, Registration!Holders, Registration!End,
        Registration!Taken
    <3> QED BY <1>2 DEF Registration!Check
  <2> QED BY <2>2, <2>3, <2>4
<1>3. ASSUME NEW p \in Procs, Registration!CreateUser(p) PROVE RegInv'
  <2>0. /\ UNCHANGED <<users, codes, resets, signed, registration_faults>>
             /\ registration_pc[p] = "create"
        /\ \A q \in Procs : Registration!Open(q)
             => Registration!Contacts(dto[q]) \cap Registration!Contacts(dto[p]) = {}
    BY <1>3, Zenon DEF Registration!CreateUser
  <2>1. RegAccounts' /\ Kept
    BY <1>0, <2>0, AccountsStep, RegSame DEF RegAccounts
  <2>2. CASE Registration!Holders(Registration!Contacts(dto[p])) # {}
    <3>1. Registration!End(p, "conflict")
      BY <1>3, <2>2, Zenon DEF Registration!CreateUser
    <3>2. /\ registration_pc' \in [Procs -> RegPoints] /\ dto' = dto /\ id' = id
          /\ registration_answer' \in [Procs
               -> {"none", "email", "mobile", "conflict", "issued", "verified"}]
          /\ registration_pc'[p] = "idle" /\ registration_answer'[p] = "conflict"
          /\ \A q \in Procs : q # p
               => registration_pc'[q] = registration_pc[q]
                 /\ registration_answer'[q] = registration_answer[q]
      BY <1>0, <3>1, RegEnds
    <3>3. RegTypes'
      BY <1>0, <2>0, <3>2 DEF RegTypes
    <3>4. \E i \in Registration!Made :
          Registration!Contacts(users[i]) \cap Registration!Contacts(dto[p]) # {}
      BY <2>2 DEF Registration!Holders
    <3>5. InFlight' /\ Answers'
      BY <2>1, <3>2, <3>4, RegQuiet
    <3> QED BY <2>1, <3>3, <3>5 DEF RegInv
  <2>3. ASSUME Registration!Holders(Registration!Contacts(dto[p])) = {} PROVE RegInv'
    <3>1. PICK i \in UserIds \ (Registration!Made \cup {id[q] : q \in Procs}) :
          id' = [id EXCEPT ![p] = i]
      BY <1>3, <2>3, Zenon DEF Registration!CreateUser
    <3>2. registration_pc' = [registration_pc EXCEPT ![p] = "role"]
          /\ UNCHANGED <<dto, registration_answer>>
      BY <1>3, <2>3, Zenon DEF Registration!CreateUser, Registration!Go
    <3>3. RegTypes'
      BY <1>0, <2>0, <3>1, <3>2 DEF RegTypes, RegPoints
    <3>4. /\ registration_pc'[p] = "role" /\ id'[p] = i
               /\ Registration!Made' = Registration!Made
          /\ \A q \in Procs : q # p
               => registration_pc'[q] = registration_pc[q] /\ id'[q] = id[q] /\ id[q] # i
      BY <1>0, <2>0, <3>1, <3>2 DEF RegTypes, Registration!Made
    <3>5. \A q \in Procs : q # p => (Registration!Open(q)' <=> Registration!Open(q))
      BY <3>4 DEF Registration!Open
    <3>6. \A j \in Registration!Made :
          Registration!Contacts(users[j]) \cap Registration!Contacts(dto[p]) = {}
      BY <2>3 DEF Registration!Holders
    <3>7. Registration!Contacts(dto[p]) # {}
      BY <1>0, <2>0 DEF InFlight
    <3>8. InFlight'
      <4>1. \A q \in Procs : Registration!Open(q)'
            => id'[q] \in UserIds /\ id'[q] \notin Registration!Made'
        BY <1>0, <3>1, <3>4, <3>5 DEF InFlight
      <4>2. \A q \in Procs, j \in Registration!Made' : Registration!Open(q)'
            => Registration!Contacts(users'[j]) \cap Registration!Contacts(dto'[q]) = {}
        BY <1>0, <2>0, <3>2, <3>4, <3>5, <3>6 DEF InFlight
      <4>3. \A q, r \in Procs : Registration!Open(q)' /\ Registration!Open(r)' /\ q # r =>
               id'[q] # id'[r] /\ Registration!Contacts(dto'[q]) \cap Registration!Contacts(dto'[r]) = {}
        <5> SUFFICES ASSUME NEW q \in Procs, NEW r \in Procs, Registration!Open(q)',
            Registration!Open(r)', q # r
                     PROVE  id'[q] # id'[r]
                              /\ Registration!Contacts(dto[q]) \cap Registration!Contacts(dto[r]) = {}
          BY <3>2
        <5>1. CASE q # p /\ r # p
          BY <1>0, <3>4, <3>5, <5>1 DEF InFlight
        <5>2. CASE q = p
          BY <2>0, <3>4, <3>5, <5>2
        <5>3. CASE r = p
          BY <2>0, <3>4, <3>5, <5>3
        <5> QED BY <5>1, <5>2, <5>3
      <4>4. \A q \in Procs : registration_pc'[q] \notin {"idle", "answer"}
            => Registration!Contacts(dto'[q]) # {}
        BY <1>0, <3>2, <3>4, <3>7 DEF InFlight
      <4>5. \A q \in Procs : registration_pc'[q] \in {"issue", "answer"} => q # p
        BY <3>4
      <4>6. \A q \in Procs : registration_pc'[q] \in {"issue", "answer"}
            => id'[q] \in Registration!Made'
        BY <1>0, <3>4, <4>5 DEF InFlight
      <4>7. \A q \in Procs : registration_pc'[q] = "answer" => users'[id'[q]].verified # {}
        BY <1>0, <2>0, <3>4, <4>5 DEF InFlight
      <4> QED BY <4>1, <4>2, <4>3, <4>4, <4>6, <4>7 DEF InFlight
    <3>9. Answers'
      BY <1>0, <2>0, <3>2, <3>4 DEF Answers
    <3> QED BY <2>1, <3>3, <3>8, <3>9 DEF RegInv
  <2> QED BY <2>2, <2>3
<1>4. ASSUME NEW p \in Procs, Registration!CreateRow(p) PROVE RegInv'
  <2>0. UNCHANGED <<users, codes, resets, signed, registration_faults, dto, id,
        registration_answer>> /\ Registration!Open(p)
    BY <1>4 DEF Registration!CreateRow, Registration!Rows, Registration!Open
  <2>1. PICK w \in {"wallet", "preference", "commit"} :
        registration_pc' = [registration_pc EXCEPT ![p] = w]
    BY <1>4 DEF Registration!CreateRow, Registration!Rows, Registration!Go
  <2>2. RegAccounts' /\ Registration!Made' = Registration!Made
    BY <1>0, <2>0, AccountsStep, KeptIs, RegSame DEF RegAccounts
  <2>3. RegTypes'
    BY <1>0, <2>0, <2>1 DEF RegTypes, RegPoints
  <2>4. registration_pc'[p] = w /\ \A q \in Procs : q # p
        => registration_pc'[q] = registration_pc[q]
    BY <1>0, <2>1 DEF RegTypes
  <2>5. \A q \in Procs : (Registration!Open(q)' => Registration!Open(q))
        /\ (q = p => registration_pc[q] \notin {"idle", "answer"})
    BY <2>0, <2>4 DEF Registration!Open
  <2>6. InFlight'
    <3>1. /\ \A q \in Procs : Registration!Open(q)'
               => id[q] \in UserIds /\ id[q] \notin Registration!Made
          /\ \A q \in Procs, i \in Registration!Made : Registration!Open(q)'
               => Registration!Contacts(users[i]) \cap Registration!Contacts(dto[q]) = {}
          /\ \A q, r \in Procs : Registration!Open(q)' /\ Registration!Open(r)' /\ q # r =>
                id[q] # id[r] /\ Registration!Contacts(dto[q]) \cap Registration!Contacts(dto[r]) = {}
      BY <1>0, <2>5 DEF InFlight
    <3>2. \A q \in Procs : registration_pc'[q] \notin {"idle", "answer"}
          => Registration!Contacts(dto[q]) # {}
      BY <1>0, <2>4, <2>5 DEF InFlight
    <3>3. \A q \in Procs : registration_pc'[q] \in {"issue", "answer"}
          => registration_pc[q] = registration_pc'[q]
      BY <2>4
    <3>4. \A q \in Procs : registration_pc'[q] \in {"issue", "answer"}
          => id[q] \in Registration!Made
      BY <1>0, <3>3 DEF InFlight
    <3>5. \A q \in Procs : registration_pc'[q] = "answer" => users[id[q]].verified # {}
      BY <1>0, <3>3 DEF InFlight
    <3> QED BY <2>0, <2>2, <3>1, <3>2, <3>4, <3>5 DEF InFlight
  <2>7. Answers'
    BY <1>0, <2>0, <2>2 DEF Answers
  <2> QED BY <2>2, <2>3, <2>6, <2>7, Zenon DEF RegInv
<1>5. ASSUME NEW p \in Procs, Registration!Commit(p) PROVE RegInv'
  <2> DEFINE x == id[p]
             new == [Registration!NoUser EXCEPT !.made = TRUE, !.rows = Registration!Rows,
                                                !.email = dto[p].email, !.mobile =
                                                  dto[p].mobile]
  <2>0. /\ UNCHANGED <<codes, resets, signed, registration_faults, dto, id,
             registration_answer>> /\ registration_pc[p] = "commit"
        /\ registration_pc' = [registration_pc EXCEPT ![p] = "issue"]
             /\ users' = [users EXCEPT ![x] = new]
        /\ dto[p] \in Contacted
    BY <1>0, <1>5 DEF Registration!Commit, Registration!Go, RegTypes
  <2>1. Registration!Open(p) /\ x \in UserIds /\ x \notin Registration!Made
        /\ Registration!Contacts(dto[p]) # {}
    BY <1>0, <2>0 DEF InFlight, Registration!Open
  <2>2. /\ new \in RegAccount /\ new.made /\ new.rows = Registration!Rows /\ new.verified = {}
        /\ new.email = dto[p].email /\ new.mobile = dto[p].mobile
    BY <2>0 DEF RegAccount, Registration!NoUser, Contacted
  <2>3. /\ users' \in [UserIds -> RegAccount] /\ users'[x] = new
        /\ \A j \in UserIds : j # x => users'[j] = users[j]
    <3> HIDE DEF new
    <3> QED BY <1>0, <2>0, <2>1, <2>2 DEF RegTypes
  <2> HIDE DEF new, x
  <2>4. Registration!Made' = Registration!Made \cup {x}
        /\ Registration!Contacts(users'[x]) = Registration!Contacts(dto[p])
    BY <2>1, <2>2, <2>3 DEF Registration!Made, Registration!Contacts
  <2>5. \A j \in Registration!Made : j # x /\ users'[j] = users[j]
    BY <1>0, <2>1, <2>3
  <2>6. RegTypes'
    BY <1>0, <2>0, <2>3 DEF RegTypes, RegPoints
  <2>7. \A j \in Registration!Made :
        Registration!Contacts(users[j]) \cap Registration!Contacts(dto[p]) = {}
    BY <1>0, <2>1 DEF InFlight
  <2>8. RegAccounts'
    <3>1. \A i \in Registration!Made' : /\ users'[i].rows = Registration!Rows
                                           /\ Registration!Contacts(users'[i]) # {}
                                        /\ users'[i].verified \subseteq Registration!Contacts(users'[i])
      BY <1>0, <2>1, <2>2, <2>3, <2>4, <2>5 DEF RegAccounts
    <3>2. \A i, j \in Registration!Made' :
          Registration!Contacts(users'[i]) \cap Registration!Contacts(users'[j]) # {} => i = j
      BY <1>0, <2>4, <2>5, <2>7 DEF RegAccounts
    <3>3. codes' \cup resets' \subseteq Registration!Made' \X Registration!Typed
          /\ signed' \subseteq Registration!Made'
      BY <1>0, <2>0, <2>4 DEF RegAccounts
    <3> QED BY <3>1, <3>2, <3>3 DEF RegAccounts
  <2>9. /\ registration_pc'[p] = "issue"
        /\ \A q \in Procs : /\ q # p => registration_pc'[q] = registration_pc[q]
                            /\ Registration!Open(q)' => q # p /\ Registration!Open(q)
    BY <1>0, <2>0 DEF RegTypes, Registration!Open
  <2>10. InFlight'
    <3>1. \A q \in Procs : Registration!Open(q)'
          => id[q] \in UserIds /\ id[q] \notin Registration!Made'
      BY <1>0, <2>1, <2>4, <2>9 DEF InFlight, x
    <3>2. \A q \in Procs, i \in Registration!Made' : Registration!Open(q)'
          => Registration!Contacts(users'[i]) \cap Registration!Contacts(dto[q]) = {}
      BY <1>0, <2>1, <2>4, <2>5, <2>9 DEF InFlight
    <3>3. \A q, r \in Procs : Registration!Open(q)' /\ Registration!Open(r)' /\ q # r =>
             id[q] # id[r] /\ Registration!Contacts(dto[q]) \cap Registration!Contacts(dto[r]) =
               {}
      BY <1>0, <2>9 DEF InFlight
    <3>4. \A q \in Procs : registration_pc'[q] \notin {"idle", "answer"}
          => Registration!Contacts(dto[q]) # {}
      BY <1>0, <2>1, <2>9 DEF InFlight
    <3>5. \A q \in Procs : registration_pc'[q] \in {"issue", "answer"}
          => id[q] \in Registration!Made'
      BY <1>0, <2>4, <2>9 DEF InFlight, x
    <3>6. \A q \in Procs : registration_pc'[q] = "answer"
          => id[q] \in Registration!Made /\ users[id[q]].verified # {}
      BY <1>0, <2>9 DEF InFlight
    <3>7. \A q \in Procs : registration_pc'[q] = "answer" => users'[id[q]].verified # {}
      BY <2>5, <3>6
    <3> QED BY <2>0, <3>1, <3>2, <3>3, <3>4, <3>5, <3>7 DEF InFlight
  <2>11. Answers'
    BY <1>0, <2>0, <2>4, <2>5 DEF Answers
  <2> QED BY <2>6, <2>8, <2>10, <2>11 DEF RegInv
<1>6. ASSUME NEW p \in Procs, Registration!Issue(p) PROVE RegInv'
  <2>0. UNCHANGED <<users, resets, signed>> /\ registration_pc[p] = "issue"
        /\ Registration!End(p, "issued")
    BY <1>6 DEF Registration!Issue
  <2>1. PICK c \in {dto[p].email, dto[p].mobile} \ {Registration!NoContact} :
           Registration!Deliver(codes, id[p], c)
    <3>1. Registration!Contacts(dto[p]) # {}
      BY <1>0, <2>0 DEF InFlight
    <3> QED BY <1>6, <3>1 DEF Registration!Issue, Registration!Contacts
  <2>2. id[p] \in Registration!Made /\ c \in Registration!Typed
    <3>1. id[p] \in Registration!Made /\ dto[p] \in Contacted
      BY <1>0, <2>0 DEF InFlight, RegTypes
    <3> QED BY <3>1 DEF Contacted, Registration!Spell, Registration!Typed
  <2>3. codes' \cup resets' \subseteq Registration!Made \X Registration!Typed
        /\ (Registration!Fault \/ UNCHANGED registration_faults)
    BY <1>0, <2>0, <2>1, <2>2 DEF Registration!Deliver, RegAccounts
  <2>4. RegAccounts' /\ Kept
    BY <1>0, <2>0, <2>3, AccountsStep, RegSame DEF RegAccounts
  <2>5. /\ registration_pc' \in [Procs -> RegPoints] /\ dto' = dto /\ id' = id
        /\ registration_answer' \in [Procs
             -> {"none", "email", "mobile", "conflict", "issued", "verified"}]
        /\ registration_pc'[p] = "idle" /\ registration_answer'[p] = "issued"
        /\ \A q \in Procs : q # p
             => registration_pc'[q] = registration_pc[q]
               /\ registration_answer'[q] = registration_answer[q]
    BY <1>0, <2>0, RegEnds
  <2>6. RegTypes'
    BY <1>0, <2>0, <2>3, <2>5, RegFaults DEF RegTypes
  <2>7. InFlight' /\ Answers'
    BY <2>4, <2>5, RegQuiet
  <2> QED BY <2>4, <2>6, <2>7 DEF RegInv
<1>7. ASSUME NEW p \in Procs, Registration!Answer(p) PROVE RegInv'
  <2>0. /\ UNCHANGED <<users, codes, resets, registration_faults>>
             /\ id[p] \in Registration!Made
        /\ signed' = signed \cup {id[p]} /\ Registration!End(p, "verified")
    BY <1>0, <1>7 DEF Registration!Answer, InFlight
  <2>4. RegAccounts' /\ Kept
    BY <1>0, <2>0, AccountsStep, RegSame DEF RegAccounts
  <2>5. /\ registration_pc' \in [Procs -> RegPoints] /\ dto' = dto /\ id' = id
        /\ registration_answer' \in [Procs
             -> {"none", "email", "mobile", "conflict", "issued", "verified"}]
        /\ registration_pc'[p] = "idle" /\ registration_answer'[p] = "verified"
        /\ \A q \in Procs : q # p
             => registration_pc'[q] = registration_pc[q]
               /\ registration_answer'[q] = registration_answer[q]
    BY <1>0, <2>0, RegEnds
  <2>6. RegTypes'
    BY <1>0, <2>0, <2>5 DEF RegTypes
  <2>7. InFlight' /\ Answers'
    BY <2>4, <2>5, RegQuiet
  <2> QED BY <2>4, <2>6, <2>7 DEF RegInv
<1>8. ASSUME NEW p \in Procs, Registration!Die(p) PROVE RegInv'
  <2>0. UNCHANGED <<users, codes, resets, signed>> /\ Registration!Fault
        /\ Registration!End(p, "none")
    BY <1>8 DEF Registration!Die
  <2>4. RegAccounts' /\ Kept
    BY <1>0, <2>0, AccountsStep, RegSame DEF RegAccounts
  <2>5. /\ registration_pc' \in [Procs -> RegPoints] /\ dto' = dto /\ id' = id
        /\ registration_answer' \in [Procs
             -> {"none", "email", "mobile", "conflict", "issued", "verified"}]
        /\ registration_pc'[p] = "idle" /\ registration_answer'[p] = "none"
        /\ \A q \in Procs : q # p
             => registration_pc'[q] = registration_pc[q]
               /\ registration_answer'[q] = registration_answer[q]
    BY <1>0, <2>0, RegEnds
  <2>6. RegTypes'
    BY <1>0, <2>0, <2>5, RegFaults DEF RegTypes
  <2>7. InFlight' /\ Answers'
    BY <2>4, <2>5, RegQuiet
  <2> QED BY <2>4, <2>6, <2>7 DEF RegInv
<1>9. ASSUME NEW p \in Procs, NEW t \in Registration!Typed, Registration!ResendOtp(p, t)
             PROVE RegInv'
  <2>0. /\ UNCHANGED <<users, codes, resets, signed, registration_faults>>
             /\ Registration!Find(t) \in Registration!Made
        /\ Registration!CallFor(p, t, Registration!Find(t), "issue")
             /\ Registration!Find(t) \in UserIds /\ "issue" \in RegPoints
    BY <1>9, Find1 DEF Registration!ResendOtp, RegPoints
  <2>4. RegAccounts' /\ Kept
    BY <1>0, <2>0, AccountsStep, RegSame DEF RegAccounts
  <2>5. /\ registration_pc' \in [Procs -> RegPoints] /\ dto' \in [Procs -> Contacted]
        /\ id' \in [Procs -> UserIds \cup {Registration!NoId}]
        /\ registration_answer' \in [Procs
             -> {"none", "email", "mobile", "conflict", "issued", "verified"}]
        /\ registration_pc'[p] = "issue" /\ id'[p] = Registration!Find(t)
             /\ registration_answer'[p] = "none" /\ Registration!Contacts(dto'[p]) # {}
        /\ \A q \in Procs : q # p
             => /\ registration_pc'[q] = registration_pc[q] /\ dto'[q] = dto[q]
                                     /\ id'[q] = id[q] /\ registration_answer'[q] =
                                          registration_answer[q]
    BY <1>0, <2>0, CallsFor
  <2>6. RegTypes'
    BY <1>0, <2>0, <2>5 DEF RegTypes
  <2>7. InFlight' /\ Answers'
    BY <2>0, <2>4, <2>5, RegQuiet
  <2> QED BY <2>4, <2>6, <2>7 DEF RegInv
<1>10. ASSUME NEW p \in Procs, NEW t \in Registration!Typed, Registration!VerifyOtp(p, t)
              PROVE RegInv'
  <2>0. /\ UNCHANGED <<resets, signed, registration_faults>>
             /\ Registration!Find(t) \in Registration!Made
        /\ users' = [users EXCEPT ![Registration!Find(t)].verified =
             @ \cup {Registration!Normal(t)}]
        /\ codes' \subseteq codes
             /\ Registration!Normal(t) \in Registration!Contacts(users[Registration!Find(t)])
        /\ Registration!CallFor(p, t, Registration!Find(t), "answer")
             /\ Registration!Find(t) \in UserIds /\ "answer" \in RegPoints
    BY <1>10, Find1 DEF Registration!VerifyOtp, RegPoints
  <2>1. {Registration!Normal(t)} \in SUBSET PlainContacts
    BY <1>0, Normals
  <2>2. /\ users' \in [UserIds -> RegAccount] /\ Kept
        /\ users'[Registration!Find(t)].verified =
             users[Registration!Find(t)].verified \cup {Registration!Normal(t)}
        /\ \A j \in UserIds : j # Registration!Find(t) => users'[j] = users[j]
    BY <1>0, <2>0, <2>1, Marked
  <2>3. \A i \in Registration!Made :
        users'[i].verified \subseteq Registration!Contacts(users[i])
    BY <1>0, <2>0, <2>2 DEF RegAccounts
  <2>4. RegAccounts'
    BY <1>0, <2>0, <2>2, <2>3, AccountsStep DEF RegAccounts
  <2>5. /\ registration_pc' \in [Procs -> RegPoints] /\ dto' \in [Procs -> Contacted]
        /\ id' \in [Procs -> UserIds \cup {Registration!NoId}]
        /\ registration_answer' \in [Procs
             -> {"none", "email", "mobile", "conflict", "issued", "verified"}]
        /\ registration_pc'[p] = "answer" /\ id'[p] = Registration!Find(t)
             /\ registration_answer'[p] = "none" /\ Registration!Contacts(dto'[p]) # {}
        /\ \A q \in Procs : q # p
             => /\ registration_pc'[q] = registration_pc[q] /\ dto'[q] = dto[q]
                                     /\ id'[q] = id[q] /\ registration_answer'[q] =
                                          registration_answer[q]
    BY <1>0, <2>0, CallsFor
  <2>6. RegTypes'
    BY <1>0, <2>0, <2>2, <2>5 DEF RegTypes
  <2>7. InFlight' /\ Answers'
    BY <2>0, <2>2, <2>5, RegQuiet
  <2> QED BY <2>4, <2>6, <2>7 DEF RegInv
\* Steps that open no call.
<1>11. ASSUME Kept, UNCHANGED Registration!calls, users' \in [UserIds -> RegAccount],
              Registration!Fault \/ UNCHANGED registration_faults,
              \A i \in Registration!Made : users'[i].verified = users[i].verified,
              codes' \cup resets' \subseteq Registration!Made \X Registration!Typed,
                signed' \subseteq Registration!Made
       PROVE  RegInv'
  <2>1. RegTypes'
    BY <1>0, <1>11, RegFaults DEF RegTypes, Registration!calls
  <2>2. \A i \in Registration!Made :
        users'[i].verified \subseteq Registration!Contacts(users[i])
    BY <1>0, <1>11 DEF RegAccounts
  <2>3. RegAccounts'
    BY <1>0, <1>11, <2>2, AccountsStep
  <2>4. InFlight' /\ Answers'
    <3>1. /\ Registration!Made' = Registration!Made
               /\ \A i \in UserIds : Registration!Contacts(users'[i]) =
                    Registration!Contacts(users[i])
          /\ registration_pc' = registration_pc /\ dto' = dto /\ id' = id
               /\ registration_answer' = registration_answer
      BY <1>11, KeptIs DEF Registration!calls
    <3>2. \A i \in Registration!Made :
          Registration!Contacts(users'[i]) = Registration!Contacts(users[i])
      BY <1>0, <3>1
    <3>3. \A q \in Procs : Registration!Open(q)' <=> Registration!Open(q)
      BY <3>1 DEF Registration!Open
    <3>4. \A q \in Procs : registration_pc[q] = "answer"
          => id[q] \in Registration!Made /\ users'[id[q]].verified # {}
      BY <1>0, <1>11 DEF InFlight
    <3>5. InFlight'
      BY <1>0, <3>1, <3>2, <3>3, <3>4 DEF InFlight
    <3>6. Answers'
      BY <1>0, <3>1, <3>2 DEF Answers
    <3> QED BY <3>5, <3>6
  <2> QED BY <2>1, <2>3, <2>4 DEF RegInv
<1>12. ASSUME NEW p \in Procs, NEW t \in Registration!Typed, Registration!ForgotPassword(p, t)
              PROVE RegInv'
  <2>1. /\ Registration!Find(t) \in Registration!Made
             /\ Registration!Normal(t) \in Registration!Typed /\ users' = users
                  /\ UNCHANGED Registration!calls
        /\ codes' = codes /\ signed' = signed
             /\ Registration!Deliver(resets, Registration!Find(t), Registration!Normal(t))
    BY <1>0, <1>12, Find1, Normals DEF Registration!ForgotPassword
  <2>2. codes' \cup resets' \subseteq Registration!Made \X Registration!Typed
        /\ (Registration!Fault \/ UNCHANGED registration_faults)
    BY <1>0, <2>1 DEF Registration!Deliver, RegAccounts
  <2>3. Kept /\ users' \in [UserIds -> RegAccount] /\ signed' \subseteq Registration!Made
    BY <1>0, <2>1, RegSame DEF RegTypes, RegAccounts
  <2> QED BY <1>11, <2>1, <2>2, <2>3
<1>13. ASSUME NEW p \in Procs, NEW t \in Registration!Typed, Registration!ResetPassword(p, t)
              PROVE RegInv'
  <2>1. /\ Registration!Find(t) \in UserIds
             /\ users' = [users EXCEPT ![Registration!Find(t)].knows = TRUE]
        /\ codes' = codes /\ signed' = signed /\ resets' \subseteq resets
        /\ UNCHANGED Registration!calls /\ registration_faults' = registration_faults
    BY <1>13, Find1 DEF Registration!ResetPassword
  <2>2. Kept /\ users' \in [UserIds -> RegAccount]
        /\ \A i \in Registration!Made : users'[i].verified = users[i].verified
    BY <1>0, <2>1, Knows
  <2> QED BY <1>0, <1>11, <2>1, <2>2 DEF RegAccounts
<1>14. ASSUME NEW p \in Procs, NEW t \in Registration!Typed, Registration!Login(p, t)
              PROVE RegInv'
  <2>1. /\ Registration!Find(t) \in Registration!Made
             /\ signed' = signed \cup {Registration!Find(t)} /\ UNCHANGED Registration!calls
        /\ codes' = codes /\ resets' = resets /\ users' = users
             /\ registration_faults' = registration_faults
    BY <1>14, Find1 DEF Registration!Login
  <2>2. Kept /\ users' \in [UserIds -> RegAccount]
    BY <1>0, <2>1, RegSame DEF RegTypes
  <2> QED BY <1>0, <1>11, <2>1, <2>2 DEF RegAccounts
<1>15. ASSUME NEW i \in UserIds, Registration!Forget(i) PROVE RegInv'
  <2>1. /\ users' = [users EXCEPT ![i].knows = FALSE] /\ Registration!Fault
        /\ codes' = codes /\ signed' = signed /\ resets' = resets
             /\ UNCHANGED Registration!calls
    BY <1>15 DEF Registration!Forget
  <2>2. Kept /\ users' \in [UserIds -> RegAccount]
        /\ \A j \in Registration!Made : users'[j].verified = users[j].verified
    BY <1>0, <2>1, Knows
  <2> QED BY <1>0, <1>11, <2>1, <2>2 DEF RegAccounts
<1>16. ASSUME UNCHANGED Registration!vars PROVE RegInv'
  <2>1. UNCHANGED <<users, codes, resets, signed, Registration!calls, registration_faults>>
    BY <1>16 DEF Registration!vars
  <2>2. Kept
    BY <2>1, RegSame
  <2> QED BY <1>0, <1>11, <2>1, <2>2 DEF RegAccounts, RegTypes
<1> QED BY <1>1, <1>2, <1>3, <1>4, <1>5, <1>6, <1>7, <1>8, <1>9, <1>10, <1>12, <1>13, <1>14,
     <1>15,
           <1>16, Zenon DEF Registration!Next, Registration!Step, Registration!Named

\* Whoever registers at once and however a contact is typed: no two accounts share a contact,
\* an account that can be seen has all its rows, and what people are told is true.
THEOREM RegistrationSafe ==
  ASSUME Registration!RegistrationAssumption
  PROVE  Registration!Spec
           => [](Registration!TypeOK /\ Registration!AccountsComplete
             /\ Registration!RefusalTrue /\ Registration!AnswerCurrent)
<1>1. RegInv => Registration!TypeOK /\ Registration!AccountsComplete
      /\ Registration!RefusalTrue /\ Registration!AnswerCurrent
  <2> SUFFICES ASSUME RegInv
      PROVE Registration!TypeOK /\ Registration!AccountsComplete /\ Registration!RefusalTrue
              /\ Registration!AnswerCurrent
    OBVIOUS
  <2>1. \A i \in UserIds :
        Registration!Contacts(users[i]) \subseteq Registration!Spell(Emails
          \cup Mobiles, {"plain"})
    BY DEF RegInv, RegTypes, RegAccount, Registration!Contacts, Registration!Spell
  <2>2. Registration!TypeOK
    BY <2>1 DEF RegInv, RegTypes, RegAccounts, Registration!TypeOK
  <2>3. Registration!AccountsComplete /\ Registration!AnswerCurrent
    BY DEF RegInv, RegTypes, RegAccounts, Registration!AccountsComplete,
         Registration!AnswerCurrent
  <2>4. Registration!RefusalTrue
    BY DEF RegInv, Answers, Registration!RefusalTrue, Registration!Holders
  <2> QED BY <2>2, <2>3, <2>4
<1> QED BY <1>1, RegInvInit, RegInvStep, PTL DEF Registration!Spec

(* One account, its patches and its exclusions (module Account). *)

AccountFields == [Account!UserColumns -> Values \cup {0}]
Patches == UNION {[named -> Values] :
  named \in SUBSET (Account!UserColumns \cup Account!PreferenceSelection)}
AccountPoints == {"start", "auditProfile", "auditPreferences", "readProfile", "readPreferences",
           "limits", "compare", "done"}

AccountTypes ==
    /\ account_user \in AccountFields
         /\ prefs \in [Account!PreferenceColumns -> Values \cup {0}]
    /\ limits \subseteq Account!LimitColumns /\ account_status \in {"ACTIVE", "SELF_EXCLUDED"}
    /\ account_now \in 0 .. MaxDays /\ trail \subseteq Editors /\ written \subseteq Editors
    /\ account_pc \in [Editors -> AccountPoints] /\ patch \in [Editors -> Patches]
    /\ ends \in [Editors -> 0 .. MaxDays + Account!Last(Durations)]
    /\ active \in [Editors -> Nat] /\ promised \in [Editors -> Nat]
    /\ account_answer \in [Editors -> {"none", "ok", "invalid", "conflict", "excluded"}]
    /\ shown \in [Editors -> AccountFields] /\ DOMAIN since = Editors

\* An exclusion is answered when its record is there; one that is being compared either
\* ends after every one that was answered when it began, or is refused.
Exclusions ==
    /\ account_records \subseteq {ends[c] :
         c \in {x \in Editors : account_answer[x] = "excluded"}}
    /\ \A c \in Editors : account_answer[c] = "excluded" =>
          ends[c] \in account_records /\ account_pc[c] = "done" /\ ends[c] > promised[c]
            /\ account_status = "SELF_EXCLUDED"
    /\ \A c \in Editors : account_pc[c] = "compare" =>
          ends[c] > 0 /\ (active[c] >= ends[c] \/ ends[c] > promised[c])

\* What a call has written and what came over it.
Writes ==
    /\ account_latest = Account!Beside(account_user, prefs)
    /\ \A c \in Editors : account_pc[c] \in {"auditProfile", "readProfile"} =>
          /\ c \in written /\ DOMAIN patch[c] \subseteq Account!UserColumns
          /\ \A f \in DOMAIN patch[c] : <<f, account_user[f]>> \in since[c]
    /\ \A c \in Editors : account_answer[c] = "ok" =>
          /\ c \in written /\ account_pc[c] = "done"
          /\ \A f \in DOMAIN patch[c] : <<f, shown[c][f]>> \in since[c]

AccountInv == AccountTypes /\ Exclusions /\ Writes

\* The last of some days is one of them.
LEMMA LastIs ==
  ASSUME NEW n \in Nat, NEW S \in SUBSET (0 .. n)
  PROVE  Account!Last(S) \in S \cup {0} /\ \A e \in S : e <= Account!Last(S)
<1> DEFINE U == S \cup {0}
           T == {n - i : i \in U}
           R == {ss \in Nat \X Nat : ss[1] < ss[2]}
<1>1. IsWellFoundedOn(R, Nat)
  BY NatLessThanWellFounded DEF OpToRel
<1>2. T \subseteq Nat /\ T # {}
  OBVIOUS
<1>3. PICK t \in T : \A y \in T : ~ (<<y, t>> \in R)
  <2> HIDE DEF R, T
  <2> QED BY <1>1, <1>2, WFMin
<1>4. \A y \in T : ~ (y < t)
  BY <1>2, <1>3
<1>5. PICK x \in U : t = n - x
  OBVIOUS
<1>6. \A e \in S : e <= x
  <2> SUFFICES ASSUME NEW e \in S PROVE e <= x
    OBVIOUS
  <2>1. n - e \in T /\ e \in Nat /\ x \in Nat
    OBVIOUS
  <2>2. ~(n - e < n - x)
    BY <1>4, <1>5, <2>1
  <2> QED BY <2>1, <2>2
<1>7. x \in S \cup {0} /\ \A e \in S : e <= x
  BY <1>6
<1> QED BY <1>7, Zenon DEF Account!Last

LEMMA Lengths ==
  ASSUME Account!AccountAssumption
  PROVE  Account!Last(Durations) \in Nat /\ \A d \in Durations : d \in Nat /\ 1 <= d
           /\ d <= Account!Last(Durations)
<1>0. PICK n \in Durations \cup {0} : \A d \in Durations : d <= n
  BY DEF Account!AccountAssumption
<1>1. n \in Nat /\ Durations \subseteq 1 .. n
  BY <1>0 DEF Account!AccountAssumption
<1>2. Durations \in SUBSET (0 .. n)
  BY <1>1
<1>3. Account!Last(Durations) \in Durations \cup {0}
      /\ \A d \in Durations : d <= Account!Last(Durations)
  BY <1>2, LastIs
<1>5. \A d \in Durations : d \in Nat /\ 1 <= d
  BY <1>1
<1>4. Account!Last(Durations) \in Nat
  <2> HIDE DEF Account!Last
  <2>1. CASE Account!Last(Durations) \in Durations
    BY <1>5, <2>1
  <2>2. CASE Account!Last(Durations) = 0
    BY <2>2
  <2> QED BY <1>3, <2>1, <2>2
<1> QED BY <1>3, <1>4, <1>5

\* The two rows share no column.
LEMMA AccountColumns ==
  /\ Account!UserColumns \cap Account!PreferenceColumns = {}
       /\ Account!PreferenceColumns \subseteq Account!PreferenceSelection
  /\ Account!UserColumns \subseteq Account!UserColumns \cup Account!PreferenceSelection
  /\ ~(Account!PreferenceSelection \subseteq Account!PreferenceColumns)
       /\ ~(Account!LimitSelection \subseteq Account!LimitColumns)
<1>1. "locale" \in Account!PreferenceSelection /\ "locale" \notin Account!PreferenceColumns
  BY DEF Account!PreferenceSelection, Account!PreferenceColumns
<1>2. "enabledAt" \in Account!LimitSelection /\ "enabledAt" \notin Account!LimitColumns
  BY DEF Account!LimitSelection, Account!LimitColumns
<1> QED BY <1>1, <1>2
     DEF Account!UserColumns, Account!PreferenceColumns, Account!PreferenceSelection

LEMMA BodiesAre ==
  ASSUME NEW fields, fields \subseteq Account!UserColumns
           \cup Account!PreferenceSelection, NEW new \in Account!Bodies(fields)
  PROVE  /\ new \in Patches /\ DOMAIN new \subseteq fields
         /\ \A f \in DOMAIN new : new[f] \in Values
<1>1. PICK named \in SUBSET fields \ {{}} : new \in [named -> Values]
  BY DEF Account!Bodies
<1>2. named \in SUBSET (Account!UserColumns \cup Account!PreferenceSelection)
      /\ named \in SUBSET fields
  OBVIOUS
<1>3. new \in Patches
  BY <1>1, <1>2 DEF Patches
<1> QED BY <1>1, <1>2, <1>3

LEMMA AccountInvInit == ASSUME Account!AccountAssumption PROVE Account!Init => AccountInv
<1> SUFFICES ASSUME Account!Init PROVE AccountInv
  OBVIOUS
<1>1. account_user \in AccountFields
      /\ prefs \in [Account!PreferenceColumns -> Values \cup {0}] /\ <<>> \in Patches
  <2>1. <<>> \in [{} -> Values]
    OBVIOUS
  <2> QED BY <2>1 DEF Account!Init, AccountFields, Patches
<1>2. Account!Last(Durations) \in Nat /\ MaxDays \in Nat
  BY Lengths DEF Account!AccountAssumption
<1>3. /\ account_pc \in [Editors -> AccountPoints]
           /\ \A c \in Editors : account_pc[c] = "start" /\ account_answer[c] = "none"
      /\ ends \in [Editors -> 0 .. MaxDays + Account!Last(Durations)] /\ ends = active
           /\ promised = active
      /\ account_answer \in [Editors -> {"none", "ok", "invalid", "conflict", "excluded"}]
  BY <1>2 DEF Account!Init, AccountPoints
<1>4. active \in [Editors -> Nat]
  BY DEF Account!Init
<1>5. AccountTypes
  BY <1>1, <1>2, <1>3, <1>4 DEF Account!Init, AccountTypes
<1>6. Exclusions
  BY <1>3 DEF Account!Init, Exclusions
<1>7. Writes
  BY <1>3 DEF Account!Init, Writes
<1> QED BY <1>5, <1>6, <1>7 DEF AccountInv

\* Writing: a call learns its own values, those that wrote before learn them as well.
LEMMA WroteIs ==
  ASSUME AccountTypes, NEW c \in Editors, NEW new, Account!Wrote(c, new)
  PROVE  /\ written' = written \cup {c} /\ DOMAIN since' = Editors
         /\ since'[c] = {<<f, new[f]>> : f \in DOMAIN new}
         /\ \A d \in Editors : d # c /\ d \in written =>
               since'[d] = since[d] \cup {<<f, new[f]>> : f \in DOMAIN new}
  BY DEF Account!Wrote

LEMMA MergedUser ==
  ASSUME NEW row \in [Account!UserColumns -> Values \cup {0}], NEW new, NEW old,
         \A f \in DOMAIN new : new[f] \in Values
  PROVE  /\ Account!Merged(row, new, old) \in AccountFields
         /\ \A f \in Account!UserColumns :
              Account!Merged(row, new, old)[f] = IF f \in DOMAIN new THEN new[f] ELSE row[f]
  BY DEF Account!Merged, AccountFields

LEMMA MergedPrefs ==
  ASSUME NEW row \in [Account!PreferenceColumns -> Values \cup {0}], NEW new, NEW old,
         \A f \in DOMAIN new : new[f] \in Values
  PROVE  /\ Account!Merged(row, new, old) \in [Account!PreferenceColumns -> Values \cup {0}]
         /\ \A f \in Account!PreferenceColumns :
              Account!Merged(row, new, old)[f] = IF f \in DOMAIN new THEN new[f] ELSE row[f]
  BY DEF Account!Merged

LEMMA AccountInvStep ==
  ASSUME Account!AccountAssumption
           PROVE AccountInv /\ [Account!Next]_(Account!vars) => AccountInv'
<1> SUFFICES ASSUME AccountInv, [Account!Next]_(Account!vars) PROVE AccountInv'
  OBVIOUS
<1>0. /\ MaxDays \in Nat /\ AccountTypes /\ Exclusions /\ Writes
           /\ Account!Last(Durations) \in Nat
      /\ \A d \in Durations : d \in Nat /\ 1 <= d /\ d <= Account!Last(Durations)
  BY Lengths DEF Account!AccountAssumption, AccountInv
<1>1. ASSUME NEW c \in Editors, Account!UpdateProfile(c) PROVE AccountInv'
  <2>1. PICK new \in Account!Bodies(Account!UserColumns) :
           /\ account_user' = Account!Merged(account_user, new, account_user)
                /\ patch' = [patch EXCEPT ![c] = new]
           /\ Account!Wrote(c, new)
    BY <1>1 DEF Account!UpdateProfile
  <2>2. /\ account_pc[c] = "start" /\ account_pc' = [account_pc EXCEPT ![c] = "auditProfile"]
        /\ UNCHANGED <<prefs, limits, account_records, account_status, account_now, trail,
             active, ends, account_answer, shown,
                       promised>>
    BY <1>1 DEF Account!UpdateProfile
  <2>3. new \in Patches /\ DOMAIN new \subseteq Account!UserColumns
        /\ \A f \in DOMAIN new : new[f] \in Values
    BY BodiesAre, AccountColumns
  <2>4. /\ account_user' \in AccountFields
        /\ \A f \in Account!UserColumns : account_user'[f] = IF f \in DOMAIN new THEN new[f]
             ELSE account_user[f]
    BY <1>0, <2>1, <2>3, MergedUser DEF AccountTypes, AccountFields
  <2>5. /\ written' = written \cup {c} /\ DOMAIN since' = Editors
        /\ since'[c] = {<<f, new[f]>> : f \in DOMAIN new}
        /\ \A d \in Editors : d # c /\ d \in written =>
              since'[d] = since[d] \cup {<<f, new[f]>> : f \in DOMAIN new}
    BY <1>0, <2>1, WroteIs
  <2>6. /\ account_pc' \in [Editors -> AccountPoints] /\ patch' \in [Editors -> Patches]
        /\ account_pc'[c] = "auditProfile" /\ patch'[c] = new
        /\ \A d \in Editors : d # c => account_pc'[d] = account_pc[d] /\ patch'[d] = patch[d]
    BY <1>0, <2>1, <2>2, <2>3 DEF AccountTypes, AccountPoints
  <2>7. AccountTypes'
    BY <1>0, <2>2, <2>4, <2>5, <2>6 DEF AccountTypes
  <2>8. Exclusions'
    BY <1>0, <2>2, <2>6 DEF Exclusions
  <2>9. account_latest' = Account!Beside(account_user', prefs')
    <3>1. /\ DOMAIN account_user = Account!UserColumns
               /\ DOMAIN account_user' = Account!UserColumns
          /\ DOMAIN prefs = Account!PreferenceColumns /\ prefs' = prefs
      BY <1>0, <2>2, <2>4 DEF AccountTypes, AccountFields
    <3>2. account_latest = Account!Beside(account_user, prefs)
      BY <1>0 DEF Writes
    <3>3. /\ DOMAIN account_latest = Account!UserColumns \cup Account!PreferenceColumns
          /\ \A f \in Account!UserColumns \cup Account!PreferenceColumns :
                account_latest[f] = IF f \in Account!UserColumns THEN account_user[f]
                  ELSE prefs[f]
      BY <3>1, <3>2 DEF Account!Beside
    <3>4. account_latest' = [f \in Account!UserColumns \cup Account!PreferenceColumns |->
                        IF f \in DOMAIN new THEN new[f] ELSE account_latest[f]]
      BY <2>1, <3>3 DEF Account!Wrote
    <3>5. Account!Beside(account_user', prefs') =
          [f \in Account!UserColumns \cup Account!PreferenceColumns |->
                               IF f \in Account!UserColumns THEN account_user'[f] ELSE prefs[f]]
      BY <3>1 DEF Account!Beside
    <3>6. \A f \in Account!UserColumns \cup Account!PreferenceColumns :
             (IF f \in DOMAIN new THEN new[f] ELSE account_latest[f])
             = (IF f \in Account!UserColumns THEN account_user'[f] ELSE prefs[f])
      BY <2>3, <2>4, <3>3
    <3> QED BY <3>4, <3>5, <3>6, Zenon
  <2>10. \A d \in Editors : account_pc'[d] \in {"auditProfile", "readProfile"} =>
            /\ d \in written' /\ DOMAIN patch'[d] \subseteq Account!UserColumns
            /\ \A f \in DOMAIN patch'[d] : <<f, account_user'[f]>> \in since'[d]
    <3>1. \A f \in DOMAIN new : <<f, account_user'[f]>> \in since'[c]
      BY <2>3, <2>4, <2>5
    <3>2. ASSUME NEW d \in Editors, d # c, account_pc[d] \in {"auditProfile", "readProfile"},
                 NEW f \in DOMAIN patch[d]
          PROVE  <<f, account_user'[f]>> \in since'[d]
      <4>1. f \in Account!UserColumns /\ <<f, account_user[f]>> \in since[d] /\ d \in written
        BY <1>0, <3>2 DEF Writes
      <4>2. since'[d] = since[d] \cup {<<g, new[g]>> : g \in DOMAIN new}
        BY <2>5, <3>2, <4>1
      <4> QED BY <2>4, <4>1, <4>2
    <3> QED BY <1>0, <2>3, <2>5, <2>6, <3>1, <3>2 DEF Writes
  <2>11. \A d \in Editors : account_answer'[d] = "ok" =>
            /\ d \in written' /\ account_pc'[d] = "done"
            /\ \A f \in DOMAIN patch'[d] : <<f, shown'[d][f]>> \in since'[d]
    BY <1>0, <2>2, <2>5, <2>6 DEF Writes
  <2>12. Writes'
    BY <2>9, <2>10, <2>11, Zenon DEF Writes
  <2> QED BY <2>7, <2>8, <2>12 DEF AccountInv
<1>2. ASSUME NEW c \in Editors, Account!UpdatePreferences(c) PROVE AccountInv'
  <2>1. PICK new \in Account!Bodies(Account!PreferenceSelection) :
           /\ patch' = [patch EXCEPT ![c] = new]
           /\ \/ /\ DOMAIN new \subseteq Account!PreferenceColumns
                 /\ prefs' = Account!Merged(prefs, new, prefs)
                 /\ Account!Wrote(c, new)
                 /\ account_pc' = [account_pc EXCEPT ![c] = "auditPreferences"]
                 /\ UNCHANGED account_answer
              \/ /\ ~ (DOMAIN new \subseteq Account!PreferenceColumns)
                 /\ Account!Answered(c, "invalid")
                 /\ UNCHANGED <<prefs, written, since, account_latest>>
    BY <1>2 DEF Account!UpdatePreferences
  <2>2. /\ account_pc[c] = "start"
        /\ UNCHANGED <<account_user, limits, account_records, account_status, account_now,
             trail, active, ends, shown, promised>>
    BY <1>2 DEF Account!UpdatePreferences
  <2>3. new \in Patches /\ \A f \in DOMAIN new : new[f] \in Values
    <3>1. Account!PreferenceSelection \subseteq Account!UserColumns
          \cup Account!PreferenceSelection
      OBVIOUS
    <3> QED BY <3>1, BodiesAre
  <2>4. patch' \in [Editors -> Patches] /\ \A d \in Editors : d # c => patch'[d] = patch[d]
    BY <1>0, <2>1, <2>3 DEF AccountTypes
  <2>5. account_answer[c] = "none" \/ account_answer[c] \notin {"ok", "excluded"}
    BY <1>0, <2>2 DEF Exclusions, Writes
  <2>6. CASE /\ DOMAIN new \subseteq Account!PreferenceColumns
             /\ prefs' = Account!Merged(prefs, new, prefs)
             /\ Account!Wrote(c, new)
             /\ account_pc' = [account_pc EXCEPT ![c] = "auditPreferences"]
             /\ UNCHANGED account_answer
    <3>1. /\ prefs' \in [Account!PreferenceColumns -> Values \cup {0}]
          /\ \A f \in Account!PreferenceColumns : prefs'[f] = IF f \in DOMAIN new THEN new[f]
               ELSE prefs[f]
      BY <1>0, <2>3, <2>6, MergedPrefs DEF AccountTypes
    <3>2. /\ written' = written \cup {c} /\ DOMAIN since' = Editors
          /\ \A d \in Editors : d # c /\ d \in written =>
                since'[d] = since[d] \cup {<<f, new[f]>> : f \in DOMAIN new}
      BY <1>0, <2>6, WroteIs
    <3>3. /\ account_pc' \in [Editors -> AccountPoints] /\ account_pc'[c] = "auditPreferences"
               /\ account_answer' = account_answer
          /\ \A d \in Editors : d # c => account_pc'[d] = account_pc[d]
      BY <1>0, <2>6 DEF AccountTypes, AccountPoints
    <3>4. AccountTypes'
      BY <1>0, <2>2, <2>4, <3>1, <3>2, <3>3 DEF AccountTypes
    <3>5. Exclusions'
      BY <1>0, <2>2, <3>3 DEF Exclusions
    <3>6. account_latest' = Account!Beside(account_user', prefs')
      <4>1. /\ DOMAIN account_user = Account!UserColumns
                 /\ DOMAIN prefs' = Account!PreferenceColumns
            /\ DOMAIN prefs = Account!PreferenceColumns /\ account_user' = account_user
        BY <1>0, <2>2, <3>1 DEF AccountTypes, AccountFields
      <4>2. account_latest = Account!Beside(account_user, prefs)
        BY <1>0 DEF Writes
      <4>3. /\ DOMAIN account_latest = Account!UserColumns \cup Account!PreferenceColumns
            /\ \A f \in Account!UserColumns \cup Account!PreferenceColumns :
                  account_latest[f] = IF f \in Account!UserColumns THEN account_user[f]
                    ELSE prefs[f]
        BY <4>1, <4>2 DEF Account!Beside
      <4>4. account_latest' = [f \in Account!UserColumns \cup Account!PreferenceColumns |->
                          IF f \in DOMAIN new THEN new[f] ELSE account_latest[f]]
        BY <2>6, <4>3 DEF Account!Wrote
      <4>5. Account!Beside(account_user', prefs') =
            [f \in Account!UserColumns \cup Account!PreferenceColumns |->
                                 IF f \in Account!UserColumns THEN account_user[f]
                                   ELSE prefs'[f]]
        BY <4>1 DEF Account!Beside
      <4>6. \A f \in Account!UserColumns \cup Account!PreferenceColumns :
               (IF f \in DOMAIN new THEN new[f] ELSE account_latest[f])
               = (IF f \in Account!UserColumns THEN account_user[f] ELSE prefs'[f])
        BY <2>6, <3>1, <4>3, AccountColumns
      <4> QED BY <4>4, <4>5, <4>6, Zenon
    <3>7. \A d \in Editors : account_pc'[d] \in {"auditProfile", "readProfile"} =>
              /\ d \in written' /\ DOMAIN patch'[d] \subseteq Account!UserColumns
              /\ \A f \in DOMAIN patch'[d] : <<f, account_user'[f]>> \in since'[d]
      BY <1>0, <2>2, <2>4, <3>2, <3>3 DEF Writes
    <3>8. \A d \in Editors : account_answer'[d] = "ok" =>
              /\ d \in written' /\ account_pc'[d] = "done"
              /\ \A f \in DOMAIN patch'[d] : <<f, shown'[d][f]>> \in since'[d]
      BY <1>0, <2>2, <2>4, <2>5, <3>2, <3>3 DEF Writes
    <3>9. Writes'
      BY <3>6, <3>7, <3>8, Zenon DEF Writes
    <3> QED BY <3>4, <3>5, <3>9 DEF AccountInv
  <2>7. CASE Account!Answered(c, "invalid")
        /\ UNCHANGED <<prefs, written, since, account_latest>>
    <3>1. /\ account_pc' \in [Editors -> AccountPoints] /\ account_pc'[c] = "done"
               /\ account_answer'[c] = "invalid"
          /\ account_answer' \in [Editors -> {"none", "ok", "invalid", "conflict", "excluded"}]
          /\ \A d \in Editors : d # c
               => account_pc'[d] = account_pc[d] /\ account_answer'[d] = account_answer[d]
      BY <1>0, <2>7 DEF Account!Answered, AccountTypes, AccountPoints
    <3>2. AccountTypes'
      BY <1>0, <2>2, <2>4, <2>7, <3>1 DEF AccountTypes
    <3>3. Exclusions'
      BY <1>0, <2>2, <2>5, <3>1 DEF Exclusions
    <3>4. Writes'
      BY <1>0, <2>2, <2>4, <2>7, <3>1 DEF Writes
    <3> QED BY <3>2, <3>3, <3>4 DEF AccountInv
  <2> QED BY <2>1, <2>6, <2>7
\* A step of a call that changes none of the rows and answers nothing, or no exclusion and
\* no profile.
<1>3. ASSUME NEW c \in Editors, NEW w \in AccountPoints,
             NEW a \in {"none", "ok", "invalid", "conflict", "excluded"},
             UNCHANGED <<Account!rows, account_now, patch, active, ends, Account!past>>,
               shown' \in [Editors -> AccountFields],
             \A d \in Editors : d # c => shown'[d] = shown[d],
             account_pc' = [account_pc EXCEPT ![c] = w],
             account_answer' = [account_answer EXCEPT ![c] = a], trail' \subseteq Editors,
             account_answer[c] # "excluded", a # "excluded", w # "compare",
             w \in {"auditProfile", "readProfile"} => account_pc[c] = "auditProfile",
             a = "ok" => w = "done" /\ account_pc[c] = "readProfile" /\ shown'[c] = account_user
      PROVE  AccountInv'
  <2>1. /\ account_pc' \in [Editors -> AccountPoints] /\ account_pc'[c] = w
             /\ account_answer'[c] = a
        /\ account_answer' \in [Editors -> {"none", "ok", "invalid", "conflict", "excluded"}]
        /\ \A d \in Editors : d # c
             => account_pc'[d] = account_pc[d] /\ account_answer'[d] = account_answer[d]
    BY <1>0, <1>3 DEF AccountTypes
  <2>2. UNCHANGED <<account_user, prefs, limits, account_records, account_status, account_now,
        patch, active, ends, written,
                    since, account_latest, promised>>
    BY <1>3 DEF Account!rows, Account!past
  <2>3. AccountTypes'
    BY <1>0, <1>3, <2>1, <2>2 DEF AccountTypes
  <2>4. Exclusions'
    BY <1>0, <1>3, <2>1, <2>2 DEF Exclusions
  <2>5. Writes'
    BY <1>0, <1>3, <2>1, <2>2 DEF Writes
  <2> QED BY <2>3, <2>4, <2>5 DEF AccountInv
<1>4. ASSUME NEW c \in Editors, Account!WriteAudit(c) PROVE AccountInv'
  <2>1. account_answer[c] \notin {"ok", "excluded"}
        /\ account_answer[c] \in {"none", "ok", "invalid", "conflict", "excluded"}
    BY <1>0, <1>4 DEF Account!WriteAudit, Exclusions, Writes, AccountTypes
  <2>2. PICK w \in {"readProfile", "readPreferences"} :
           account_pc' = [account_pc EXCEPT ![c] = w]
             /\ (w = "readProfile" => account_pc[c] = "auditProfile")
    BY <1>4 DEF Account!WriteAudit
  <2>3. /\ UNCHANGED <<Account!rows, account_now, patch, active, ends, Account!past>>
             /\ shown' = shown
        /\ trail' \subseteq Editors /\ shown \in [Editors -> AccountFields]
             /\ w \in AccountPoints
    BY <1>0, <1>4 DEF Account!WriteAudit, AccountTypes, AccountPoints
  <2>4. account_answer' = [account_answer EXCEPT ![c] = account_answer[c]]
    BY <1>0, <1>4 DEF Account!WriteAudit, AccountTypes
  <2> QED BY <1>3, <2>1, <2>2, <2>3, <2>4
<1>5. ASSUME NEW c \in Editors, Account!ReadProfile(c) PROVE AccountInv'
  <2>1. /\ account_pc[c] = "readProfile" /\ "done" \in AccountPoints
             /\ account_answer[c] # "excluded"
        /\ account_pc' = [account_pc EXCEPT ![c] = "done"]
             /\ account_answer' = [account_answer EXCEPT ![c] = "ok"]
    BY <1>0, <1>5 DEF Account!ReadProfile, Account!Answered, AccountPoints, Exclusions
  <2>2. UNCHANGED <<Account!rows, account_now, patch, active, ends, Account!past>>
        /\ trail' \subseteq Editors
    BY <1>0, <1>5 DEF Account!ReadProfile, AccountTypes
  <2>3. /\ shown' \in [Editors -> AccountFields] /\ shown'[c] = account_user
        /\ \A d \in Editors : d # c => shown'[d] = shown[d]
    BY <1>0, <1>5 DEF Account!ReadProfile, AccountTypes
  <2> QED BY <1>3, <2>1, <2>2, <2>3
<1>6. ASSUME NEW c \in Editors, NEW a \in {"invalid", "conflict"}, Account!Answered(c, a),
             account_pc[c] \in {"start", "readPreferences", "limits", "compare"},
             UNCHANGED <<Account!rows, account_now, trail, patch, active, ends, shown,
               Account!past>>
      PROVE  AccountInv'
  <2>1. /\ "done" \in AccountPoints /\ account_answer[c] # "excluded"
        /\ account_pc' = [account_pc EXCEPT ![c] = "done"]
             /\ account_answer' = [account_answer EXCEPT ![c] = a]
        /\ trail' \subseteq Editors /\ shown' = shown /\ shown \in [Editors -> AccountFields]
    BY <1>0, <1>6 DEF Account!Answered, AccountPoints, Exclusions, AccountTypes
  <2> QED BY <1>3, <1>6, <2>1
<1>7. ASSUME NEW c \in Editors, Account!GetPreferences(c) PROVE AccountInv'
  <2>1. Account!Answered(c, "invalid")
    BY <1>7, AccountColumns DEF Account!GetPreferences
  <2> QED BY <1>6, <1>7, <2>1 DEF Account!GetPreferences
<1>8. ASSUME NEW c \in Editors, Account!GetRgLimits(c) PROVE AccountInv'
  BY <1>6, <1>8 DEF Account!GetRgLimits
<1>9. ASSUME NEW c \in Editors, Account!Conflict(c) PROVE AccountInv'
  BY <1>6, <1>9 DEF Account!Conflict
<1>10. ASSUME NEW c \in Editors, Account!SetRgLimits(c) PROVE AccountInv'
  <2>1. account_answer[c] \notin {"ok", "excluded"}
        /\ account_answer[c] \in {"none", "ok", "invalid", "conflict", "excluded"}
    BY <1>0, <1>10 DEF Account!SetRgLimits, Exclusions, Writes, AccountTypes
  <2>2. /\ UNCHANGED <<Account!rows, account_now, patch, active, ends, Account!past>>
             /\ shown' = shown /\ "limits" \in AccountPoints
        /\ trail' \subseteq Editors /\ shown \in [Editors -> AccountFields]
             /\ account_pc' = [account_pc EXCEPT ![c] = "limits"]
    BY <1>0, <1>10 DEF Account!SetRgLimits, AccountTypes, AccountPoints
  <2>3. account_answer' = [account_answer EXCEPT ![c] = account_answer[c]]
    BY <1>0, <1>10 DEF Account!SetRgLimits, AccountTypes
  <2> QED BY <1>3, <2>1, <2>2, <2>3
<1>11. ASSUME NEW c \in Editors, NEW days \in Durations, Account!FindActive(c, days)
              PROVE AccountInv'
  <2> DEFINE running == {e \in account_records : e > account_now}
             given == {ends[d] : d \in {x \in Editors : account_answer[x] = "excluded"}}
  <2>1. /\ account_pc[c] = "start" /\ account_pc' = [account_pc EXCEPT ![c] = "compare"]
        /\ active' = [active EXCEPT ![c] = Account!Last(running)]
        /\ ends' = [ends EXCEPT ![c] = account_now + days]
        /\ promised' = [promised EXCEPT ![c] = Account!Last(given)]
        /\ UNCHANGED <<account_user, prefs, limits, account_records, account_status,
             account_now, trail, patch, account_answer, shown,
                       written, since, account_latest>>
    BY <1>11 DEF Account!FindActive, Account!rows
  <2>2. given \subseteq account_records
        /\ account_records \subseteq 0 .. MaxDays + Account!Last(Durations)
    BY <1>0 DEF Exclusions, AccountTypes
  <2>3. running \in SUBSET (0 .. MaxDays + Account!Last(Durations))
        /\ given \in SUBSET (0 .. MaxDays + Account!Last(Durations))
    BY <2>2
  <2>4. MaxDays + Account!Last(Durations) \in Nat
    BY <1>0
  <2>5. /\ Account!Last(running) \in running \cup {0}
             /\ \A e \in running : e <= Account!Last(running)
        /\ Account!Last(given) \in given \cup {0} /\ \A e \in given : e <= Account!Last(given)
    <3> HIDE DEF running, given
    <3> QED BY <2>3, <2>4, LastIs
  <2>6. Account!Last(running) \in Nat /\ Account!Last(given) \in Nat
    <3>1. \A e \in running \cup {0} : e \in Nat
      BY <2>3, <2>4
    <3>2. \A e \in given \cup {0} : e \in Nat
      BY <2>3, <2>4
    <3> HIDE DEF running, given
    <3> QED BY <2>5, <3>1, <3>2
  <2>7. account_now + days \in 0 .. MaxDays + Account!Last(Durations)
        /\ account_now + days > 0 /\ account_now \in Nat /\ days \in Nat /\ 1 <= days
    BY <1>0 DEF AccountTypes
  <2>8. Account!Last(running) >= account_now + days \/ account_now + days > Account!Last(given)
    <3>1. CASE Account!Last(given) \in running
      <4>1. Account!Last(given) <= Account!Last(running)
        <5> HIDE DEF running, given
        <5> QED BY <2>5, <3>1
      <4> HIDE DEF running, given, Account!Last
      <4> QED BY <2>6, <2>7, <4>1
    <3>2. CASE Account!Last(given) \notin running
      <4>1. Account!Last(given) <= account_now
        <5>1. Account!Last(given) = 0 \/ Account!Last(given) \in account_records
          BY <2>2, <2>5
        <5>2. \A e \in account_records : e \notin running /\ e \in Nat => e <= account_now
          BY <2>7
        <5> HIDE DEF running, given, Account!Last
        <5> QED BY <2>6, <2>7, <3>2, <5>1, <5>2
      <4> HIDE DEF running, given, Account!Last
      <4> QED BY <2>6, <2>7, <4>1
    <3> QED BY <3>1, <3>2
  <2> HIDE DEF running, given
  <2>9. account_answer[c] \notin {"ok", "excluded"}
    BY <1>0, <2>1 DEF Exclusions, Writes
  <2>10. /\ account_pc' \in [Editors -> AccountPoints] /\ account_pc'[c] = "compare"
              /\ active'[c] = Account!Last(running)
         /\ ends'[c] = account_now + days /\ promised'[c] = Account!Last(given)
         /\ active' \in [Editors -> Nat] /\ promised' \in [Editors -> Nat]
         /\ ends' \in [Editors -> 0 .. MaxDays + Account!Last(Durations)]
         /\ \A d \in Editors : d # c => /\ account_pc'[d] = account_pc[d] /\ ends'[d] = ends[d]
                                        /\ active'[d] = active[d] /\ promised'[d] = promised[d]
    BY <1>0, <2>1, <2>6, <2>7 DEF AccountTypes, AccountPoints
  <2>11. AccountTypes'
    BY <1>0, <2>1, <2>10 DEF AccountTypes
  <2>12. Exclusions'
    <3>1. account_records \subseteq {ends'[d] :
          d \in {x \in Editors : account_answer[x] = "excluded"}}
      BY <1>0, <2>9, <2>10 DEF Exclusions
    <3>2. \A d \in Editors : account_answer[d] = "excluded" =>
             ends'[d] \in account_records /\ account_pc'[d] = "done"
               /\ ends'[d] > promised'[d] /\ account_status = "SELF_EXCLUDED"
      BY <1>0, <2>9, <2>10 DEF Exclusions
    <3>3. \A d \in Editors : account_pc'[d] = "compare" =>
             ends'[d] > 0 /\ (active'[d] >= ends'[d] \/ ends'[d] > promised'[d])
      BY <1>0, <2>7, <2>8, <2>10 DEF Exclusions
    <3> QED BY <2>1, <3>1, <3>2, <3>3 DEF Exclusions
  <2>13. Writes'
    BY <1>0, <2>1, <2>10 DEF Writes
  <2> QED BY <2>11, <2>12, <2>13 DEF AccountInv
<1>12. ASSUME NEW c \in Editors, Account!SelfExclude(c) PROVE AccountInv'
  <2>1. /\ account_pc[c] = "compare" /\ active[c] < ends[c]
             /\ account_records' = account_records \cup {ends[c]}
        /\ account_status' = "SELF_EXCLUDED" /\ trail' = trail \cup {c}
             /\ Account!Answered(c, "excluded")
        /\ UNCHANGED <<account_user, prefs, limits, account_now, patch, active, ends, shown,
             written, since,
                       account_latest, promised>>
    BY <1>12 DEF Account!SelfExclude, Account!past
  <2>2. /\ account_pc' \in [Editors -> AccountPoints] /\ account_pc'[c] = "done"
             /\ account_answer'[c] = "excluded"
        /\ account_answer' \in [Editors -> {"none", "ok", "invalid", "conflict", "excluded"}]
        /\ \A d \in Editors : d # c
             => account_pc'[d] = account_pc[d] /\ account_answer'[d] = account_answer[d]
    BY <1>0, <2>1 DEF Account!Answered, AccountTypes, AccountPoints
  <2>3. ends[c] \in Nat /\ active[c] \in Nat /\ ends[c] > promised[c]
    <3>1. ends[c] \in Nat /\ active[c] \in Nat
      BY <1>0 DEF AccountTypes
    <3>2. active[c] >= ends[c] \/ ends[c] > promised[c]
      BY <1>0, <2>1 DEF Exclusions
    <3> QED BY <2>1, <3>1, <3>2
  <2>4. AccountTypes'
    BY <1>0, <2>1, <2>2 DEF AccountTypes
  <2>5. Exclusions'
    BY <1>0, <2>1, <2>2, <2>3 DEF Exclusions
  <2>6. Writes'
    BY <1>0, <2>1, <2>2 DEF Writes
  <2> QED BY <2>4, <2>5, <2>6 DEF AccountInv
<1>13. CASE Account!NextDay
  <2>1. /\ account_now' \in 0 .. MaxDays
        /\ UNCHANGED <<account_user, prefs, limits, account_records, account_status, trail,
             account_pc, patch, active, ends,
                       account_answer, shown, written, since, account_latest, promised>>
    BY <1>0, <1>13 DEF Account!NextDay, AccountTypes, Account!rows, Account!call, Account!past
  <2>2. AccountTypes'
    BY <1>0, <2>1 DEF AccountTypes
  <2>3. Exclusions' /\ Writes'
    BY <1>0, <2>1 DEF Exclusions, Writes
  <2> QED BY <2>2, <2>3 DEF AccountInv
<1>14. CASE UNCHANGED Account!vars
  <2>1. UNCHANGED <<account_user, prefs, limits, account_records, account_status, account_now,
        trail, account_pc, patch, active, ends,
                    account_answer, shown, written, since, account_latest, promised>>
    BY <1>14 DEF Account!vars, Account!rows, Account!call, Account!past
  <2> QED BY <1>0, <2>1 DEF AccountInv, AccountTypes, Exclusions, Writes
<1> QED BY <1>1, <1>2, <1>4, <1>5, <1>7, <1>8, <1>9, <1>10, <1>11, <1>12, <1>13, <1>14, Zenon
        DEF Account!Next, Account!Step

\* Calls of one account that meet: no field of another call is lost, an answer shows what the
\* call wrote or what came after, an exclusion is never answered shorter than one that runs,
\* and while one runs the account is shut, whatever the lengths and the days.
THEOREM AccountSafe ==
  ASSUME Account!AccountAssumption
  PROVE  Account!Spec => [](Account!TypeOK /\ Account!NothingLost /\ Account!AnswerShows
           /\ Account!NeverShortened /\ Account!ExclusionShuts)
<1>1. AccountInv => Account!TypeOK /\ Account!NothingLost /\ Account!AnswerShows
      /\ Account!NeverShortened /\ Account!ExclusionShuts
  <2> SUFFICES ASSUME AccountInv
               PROVE  Account!TypeOK /\ Account!NothingLost /\ Account!AnswerShows
                        /\ Account!NeverShortened /\ Account!ExclusionShuts
    OBVIOUS
  <2>1. account_records \subseteq 1 .. MaxDays + Account!Last(Durations)
    <3> SUFFICES ASSUME NEW e \in account_records
        PROVE e \in 1 .. MaxDays + Account!Last(Durations)
      OBVIOUS
    <3>1. PICK c \in Editors : e = ends[c] /\ account_answer[c] = "excluded"
      BY DEF AccountInv, Exclusions
    <3>2. ends[c] \in 0 .. MaxDays + Account!Last(Durations) /\ promised[c] \in Nat
          /\ ends[c] > promised[c]
      BY <3>1 DEF AccountInv, Exclusions, AccountTypes
    <3>3. Account!Last(Durations) \in Nat /\ MaxDays \in Nat
      BY Lengths DEF Account!AccountAssumption
    <3> QED BY <3>1, <3>2, <3>3
  <2>2. Account!TypeOK
    BY <2>1 DEF AccountInv, AccountTypes, Account!TypeOK, AccountPoints, AccountFields
  <2>3. Account!NothingLost /\ Account!AnswerShows /\ Account!NeverShortened
    BY DEF AccountInv, Writes, Exclusions, Account!NothingLost, Account!AnswerShows,
         Account!NeverShortened
  <2>4. Account!ExclusionShuts
    BY DEF AccountInv, Exclusions, Account!ExclusionShuts
  <2> QED BY <2>2, <2>3, <2>4
<1> QED BY <1>1, AccountInvInit, AccountInvStep, PTL DEF Account!Spec

(* The tournaments (module Tournaments). *)

\* Each fee was paid with a key of its entry; nobody comes to the insert of a row for
\* which there is a fee without having paid it.
Charges ==
    /\ \A f \in fees : /\ <<f.user, f.tournament>> \in Players \X Cups
                       /\ f.key \in KeysFor[<<f.user, f.tournament>>]
    /\ \A p \in Joiners : tournaments_pc[p] = "debit"
         => tournaments_call[p].tournament \notin FreeCups

Paid ==
    \A p \in Joiners : tournaments_pc[p] = "create"
      /\ tournaments_call[p].tournament \notin FreeCups =>
        Tournaments!FeesOf(tournaments_call[p].user, tournaments_call[p].tournament) # {}

JoinInv == Tournaments!TypeOK /\ Charges

LEMMA TournamentsCount == ASSUME NEW S PROVE Tournaments!Cardinality(S) = Cardinality(S)
  BY Zenon DEF Tournaments!Cardinality, Cardinality

\* The parts of a call.
LEMMA JoinsType ==
    ASSUME NEW c \in Tournaments!Joins
    PROVE  /\ c.user \in Players /\ c.tournament \in Cups
           /\ c.key \in KeysFor[<<c.user, c.tournament>>]
                /\ Tournaments!Seat(c) \in Players \X Cups
BY DEF Tournaments!Joins, Tournaments!Seat

\* What an idle call holds is a call.
LEMMA IdleType == ASSUME Tournaments!TournamentsAssumption
  PROVE Tournaments!Idle \in Tournaments!Joins
<1>1. PICK w \in Players \X Cups : KeysFor[w] # {}
  BY DEF Tournaments!TournamentsAssumption
<1>2. PICK k \in KeysFor[w] : TRUE
  BY <1>1
<1>3. [user |-> w[1], tournament |-> w[2], key |-> k] \in Tournaments!Joins
  BY <1>2 DEF Tournaments!Joins
<1>. QED
  BY <1>3 DEF Tournaments!Idle

\* The initial states.
LEMMA JoinInvInit == ASSUME Tournaments!TournamentsAssumption, Tournaments!Init PROVE JoinInv
BY IdleType DEF Tournaments!Init, JoinInv, Tournaments!TypeOK, Charges,
     Tournaments!TournamentsAssumption

\* Each step keeps every fee under a key of its entry.
LEMMA JoinInvStep == ASSUME Tournaments!TournamentsAssumption, JoinInv,
  [Tournaments!Next]_(Tournaments!vars) PROVE JoinInv'
<1>. USE DEF JoinInv, Tournaments!TypeOK, Charges
<1>1. ASSUME NEW p \in Joiners, NEW c \in Tournaments!Joins, Tournaments!GetById(p, c)
             PROVE JoinInv'
  BY <1>1, JoinsType DEF Tournaments!GetById, Tournaments!Go, Tournaments!rows
<1>2. ASSUME NEW p \in Joiners, Tournaments!Existing(p) PROVE JoinInv'
  BY <1>2, IdleType DEF Tournaments!Existing, Tournaments!Go, Tournaments!End, Tournaments!rows
<1>3. ASSUME NEW p \in Joiners, Tournaments!Debit(p) PROVE JoinInv'
  BY <1>3, JoinsType DEF Tournaments!Debit, Tournaments!Go, Tournaments!Fee
<1>4. ASSUME NEW p \in Joiners, Tournaments!Create(p) PROVE JoinInv'
  BY <1>4, IdleType, JoinsType DEF Tournaments!Create, Tournaments!Go, Tournaments!End
<1>5. ASSUME NEW p \in Joiners, Tournaments!Die(p) PROVE JoinInv'
  BY <1>5, IdleType DEF Tournaments!Die, Tournaments!Go, Tournaments!End, Tournaments!rows,
       Tournaments!TournamentsAssumption
<1>6. ASSUME NEW t \in Cups, Tournaments!Close(t) PROVE JoinInv'
  BY <1>6 DEF Tournaments!Close
<1>7. CASE UNCHANGED Tournaments!vars
  BY <1>7 DEF Tournaments!vars, Tournaments!rows
<1>. QED
  BY <1>1, <1>2, <1>3, <1>4, <1>5, <1>6, <1>7 DEF Tournaments!Next, Tournaments!Step

\* A fee that is there stays.
LEMMA FeesStay ==
    ASSUME [Tournaments!Next]_(Tournaments!vars) PROVE fees \subseteq fees'
BY DEF Tournaments!Next, Tournaments!Step, Tournaments!vars, Tournaments!rows,
     Tournaments!GetById, Tournaments!Existing, Tournaments!Debit, Tournaments!Create,
       Tournaments!Die, Tournaments!Close

\* A call that finds its key used finds a fee of its own entry.
LEMMA PaidStep ==
    ASSUME Tournaments!TournamentsAssumption, Tournaments!KeysApart, JoinInv, Paid,
             Tournaments!PlayersPaid, [Tournaments!Next]_(Tournaments!vars)
    PROVE  Paid' /\ Tournaments!PlayersPaid'
<1>1. \A u, t : Tournaments!FeesOf(u, t) # {} => Tournaments!FeesOf(u, t)' # {}
  BY FeesStay DEF Tournaments!FeesOf
<1>2. ASSUME NEW p \in Joiners, NEW c \in Tournaments!Joins, Tournaments!GetById(p, c)
             PROVE Paid' /\ Tournaments!PlayersPaid'
  BY <1>1, <1>2 DEF Tournaments!GetById, Tournaments!Go, Tournaments!rows, Paid,
       Tournaments!PlayersPaid, JoinInv, Tournaments!TypeOK
<1>3. ASSUME NEW p \in Joiners, Tournaments!Existing(p) PROVE Paid' /\ Tournaments!PlayersPaid'
  BY <1>1, <1>3 DEF Tournaments!Existing, Tournaments!Go, Tournaments!End, Tournaments!rows,
       Paid, Tournaments!PlayersPaid, JoinInv, Tournaments!TypeOK
<1>4. ASSUME NEW p \in Joiners, Tournaments!Debit(p) PROVE Paid' /\ Tournaments!PlayersPaid'
  <2>1. Tournaments!FeesOf(tournaments_call[p].user, tournaments_call[p].tournament)' # {}
    <3>1. CASE \E f \in fees : f.key = tournaments_call[p].key
      <4>1. PICK f \in fees : f.key = tournaments_call[p].key
        BY <3>1
      <4>2. <<f.user, f.tournament>> =
            <<tournaments_call[p].user, tournaments_call[p].tournament>>
        BY <4>1, JoinsType DEF Tournaments!KeysApart, JoinInv, Tournaments!TypeOK, Charges
      <4>. QED
        BY <1>4, <4>1, <4>2, FeesStay DEF Tournaments!FeesOf, Tournaments!Debit
    <3>2. CASE ~ \E f \in fees : f.key = tournaments_call[p].key
      <4>1. Tournaments!Fee(tournaments_call[p]) \in fees'
        BY <1>4, <3>2 DEF Tournaments!Debit
      <4>. QED
        BY <1>4, <4>1 DEF Tournaments!FeesOf, Tournaments!Fee, Tournaments!Debit
    <3>. QED
      BY <3>1, <3>2
  <2>. QED
    BY <1>1, <1>4, <2>1 DEF Tournaments!Debit, Tournaments!Go, Paid, Tournaments!PlayersPaid,
         JoinInv, Tournaments!TypeOK
<1>5. ASSUME NEW p \in Joiners, Tournaments!Create(p) PROVE Paid' /\ Tournaments!PlayersPaid'
  BY <1>1, <1>5 DEF Tournaments!Create, Tournaments!Go, Tournaments!End, Tournaments!Seat,
       Paid, Tournaments!PlayersPaid, JoinInv, Tournaments!TypeOK
<1>6. ASSUME NEW p \in Joiners, Tournaments!Die(p) PROVE Paid' /\ Tournaments!PlayersPaid'
  BY <1>1, <1>6 DEF Tournaments!Die, Tournaments!Go, Tournaments!End, Tournaments!rows, Paid,
       Tournaments!PlayersPaid, JoinInv, Tournaments!TypeOK
<1>7. ASSUME NEW t \in Cups, Tournaments!Close(t) PROVE Paid' /\ Tournaments!PlayersPaid'
  BY <1>1, <1>7 DEF Tournaments!Close, Paid, Tournaments!PlayersPaid
<1>8. CASE UNCHANGED Tournaments!vars
  BY <1>1, <1>8 DEF Tournaments!vars, Tournaments!rows, Paid, Tournaments!PlayersPaid
<1>. QED
  BY <1>2, <1>3, <1>4, <1>5, <1>6, <1>7, <1>8 DEF Tournaments!Next, Tournaments!Step

\* Whoever is in a tournament has paid for it, whatever dies and whoever tries again,
\* if no key is sent for two entries (TournamentsService.join, 57-72).
THEOREM EveryPlayerPaid ==
    ASSUME Tournaments!TournamentsAssumption, Tournaments!KeysApart
             PROVE Tournaments!Spec => []Tournaments!PlayersPaid
<1>1. Tournaments!Init => JoinInv /\ Paid /\ Tournaments!PlayersPaid
  BY JoinInvInit DEF Tournaments!Init, Paid, Tournaments!PlayersPaid
<1>2. JoinInv /\ Paid /\ Tournaments!PlayersPaid /\ [Tournaments!Next]_(Tournaments!vars)
      => (JoinInv /\ Paid /\ Tournaments!PlayersPaid)'
  BY JoinInvStep, PaidStep
<1>. QED
  BY <1>1, <1>2, PTL DEF Tournaments!Spec

\* Nobody pays twice, however many calls are open and however many die, if the client
\* keeps its key: the ledger takes a key once.
THEOREM NobodyPaysTwice ==
    ASSUME Tournaments!TournamentsAssumption, Tournaments!KeysKept
             PROVE Tournaments!Spec => [](Tournaments!TypeOK /\ Tournaments!ChargedOnce)
<1>1. Tournaments!Init => JoinInv
  BY JoinInvInit
<1>2. JoinInv /\ [Tournaments!Next]_(Tournaments!vars) => JoinInv'
  BY JoinInvStep
<1>3. JoinInv => Tournaments!TypeOK
  BY DEF JoinInv
<1>4. JoinInv => Tournaments!ChargedOnce
  <2>. SUFFICES ASSUME JoinInv, NEW u \in Players, NEW t \in Cups
                PROVE  Cardinality(Tournaments!FeesOf(u, t)) <= 1
    BY TournamentsCount DEF Tournaments!ChargedOnce
  <2>1. \A f, g \in Tournaments!FeesOf(u, t) : f = g
    <3>. SUFFICES ASSUME NEW f \in Tournaments!FeesOf(u, t),
         NEW g \in Tournaments!FeesOf(u, t) PROVE f.key = g.key
      BY DEF Tournaments!FeesOf, JoinInv, Tournaments!TypeOK
    <3>1. <<f.user, f.tournament>> = <<u, t>> /\ <<g.user, g.tournament>> = <<u, t>>
      BY DEF Tournaments!FeesOf
    <3>2. f.key \in KeysFor[<<u, t>>] /\ g.key \in KeysFor[<<u, t>>]
      BY <3>1 DEF Tournaments!FeesOf, JoinInv, Charges
    <3>. QED
      BY <3>2 DEF Tournaments!KeysKept
  <2>2. CASE Tournaments!FeesOf(u, t) = {}
    BY <2>2, FS_EmptySet
  <2>3. CASE Tournaments!FeesOf(u, t) # {}
    <3>1. PICK f \in Tournaments!FeesOf(u, t) : Tournaments!FeesOf(u, t) = {f}
      BY <2>1, <2>3
    <3>2. Cardinality({f}) = 1
      BY FS_Singleton
    <3>3. Cardinality(Tournaments!FeesOf(u, t)) = 1
      BY <3>1, <3>2, Zenon
    <3>. QED
      BY <3>3
  <2>. QED
    BY <2>2, <2>3
<1>. QED
  BY <1>1, <1>2, <1>3, <1>4, PTL DEF Tournaments!Spec

(* What administrators do and what tells of it (module Administration). *)

AdminActions == {"user.status", "wallet.admin_credit", "settings.update", "wallet.credit",
  "http.admin"}
AdminRows == [action : AdminActions, call : AdminCalls, value : AdminValues]
AdminDone(c) == \E j \in 1 .. Len(did) : did[j] = c

\* A call that is past its mutation has made it, or found it made; and so has one that is
\* credited.
AdminInv ==
    /\ at \in [AdminCalls -> Administration!Points] /\ tries \in [AdminCalls -> Nat]
    /\ \A c \in AdminCalls : tries[c] \in 0 .. Tries[c]
         /\ (Administration!Running(c) => Administration!Permitted(c))
    /\ administration_status \in AdminValues \cup {Null} /\ setting \in AdminValues \cup {Null}
    /\ administration_ledger \subseteq AdminCalls /\ sessions \in BOOLEAN
    /\ audit \in Seq(AdminRows) /\ did \in Seq(AdminCalls)
    /\ \A c \in AdminCalls : at[c] \in {"audit", "revoke", "respond"} => AdminDone(c)
    /\ \A c \in AdminCalls : c \in administration_ledger
         => AdminDone(c) /\ Administration!Audited(c, "wallet.credit")
    /\ \A i \in 1 .. Len(did) : Kind[did[i]] = "credit" => did[i] \in administration_ledger
    /\ Administration!TrailTrue
    /\ Administration!CreditedOnce

LEMMA AdminInvInit ==
  ASSUME Administration!AdministrationAssumption PROVE Administration!Init => AdminInv
<1> SUFFICES ASSUME Administration!Init PROVE AdminInv
  OBVIOUS
<1>1. at \in [AdminCalls -> Administration!Points] /\ tries \in [AdminCalls -> Nat]
      /\ \A c \in AdminCalls : at[c] = "idle" /\ tries[c] = 0
  BY DEF Administration!Init, Administration!Points
<1>2. sessions \in BOOLEAN
  BY Zenon DEF Administration!Init
<1>3. \A c \in AdminCalls : 0 \in 0 .. Tries[c]
  BY DEF Administration!AdministrationAssumption
<1>4. Len(audit) = 0 /\ Len(did) = 0 /\ audit \in Seq(AdminRows) /\ did \in Seq(AdminCalls)
  BY DEF Administration!Init
<1> QED BY <1>1, <1>2, <1>3, <1>4
     DEF Administration!Init, AdminInv, Administration!Running, Administration!TrailTrue,
          Administration!CreditedOnce

\* The two logs only grow: what was done stays done, what was written stays written.
LEMMA Grown ==
  ASSUME NEW S, NEW s \in Seq(S), NEW e \in S
  PROVE  /\ Append(s, e) \in Seq(S) /\ Len(Append(s, e)) = Len(s) + 1
         /\ \A i \in 1 .. Len(s) : i \in 1 .. Len(Append(s, e)) /\ Append(s, e)[i] = s[i]
         /\ Append(s, e)[Len(s) + 1] = e
         /\ \A i \in 1 .. Len(Append(s, e)) : i \in 1 .. Len(s) \/ i = Len(s) + 1
  OBVIOUS

\* A mutation that is not a credit made before: the log of what was done grows by it.
LEMMA DidMore ==
  ASSUME AdminInv, NEW c \in AdminCalls, did' = Append(did, c), Kind[c] = "credit"
           => c \notin administration_ledger
  PROVE  /\ did' \in Seq(AdminCalls) /\ \A d \in AdminCalls : AdminDone(d) \/ d = c
              => AdminDone(d)'
         /\ Administration!CreditedOnce'
         /\ \A i \in 1 .. Len(did') : did'[i] = c \/ \E j \in 1 .. Len(did) : did[j] = did'[i]
<1> USE Grown DEF AdminInv
<1>1. /\ did' \in Seq(AdminCalls) /\ Len(did') = Len(did) + 1 /\ Len(did) \in Nat
      /\ \A i \in 1 .. Len(did) : did'[i] = did[i]
      /\ did'[Len(did) + 1] = c
  OBVIOUS
<1>2. \A d \in AdminCalls : AdminDone(d) \/ d = c => AdminDone(d)'
  BY <1>1 DEF AdminDone
<1>3. Administration!CreditedOnce'
  BY <1>1 DEF Administration!CreditedOnce
<1>4. \A i \in 1 .. Len(did') : did'[i] = c \/ \E j \in 1 .. Len(did) : did[j] = did'[i]
  <2> SUFFICES ASSUME NEW i \in 1 .. Len(did'), did'[i] # c
               PROVE  \E j \in 1 .. Len(did) : did[j] = did'[i]
    OBVIOUS
  <2> QED BY <1>1
<1> QED BY <1>1, <1>2, <1>3, <1>4

LEMMA WroteMore ==
  ASSUME AdminInv, NEW r \in AdminRows, audit' = Append(audit, r), AdminDone(r.call)',
         \A d \in AdminCalls : AdminDone(d) => AdminDone(d)'
  PROVE  /\ audit' \in Seq(AdminRows) /\ Administration!TrailTrue'
         /\ \A d \in AdminCalls : Administration!Audited(d, "wallet.credit")
              \/ r = Administration!Row(d, "wallet.credit")
                                  => Administration!Audited(d, "wallet.credit")'
<1> USE DEF AdminInv
<1>1. /\ audit' \in Seq(AdminRows) /\ Len(audit') = Len(audit) + 1 /\ Len(audit) \in Nat
      /\ \A i \in 1 .. Len(audit) : audit'[i] = audit[i]
      /\ audit'[Len(audit) + 1] = r
  BY Grown
<1>2. Administration!TrailTrue'
  <2> SUFFICES ASSUME NEW i \in 1 .. Len(audit')
               PROVE  \E j \in 1 .. Len(did') : did'[j] = audit'[i].call
    BY DEF Administration!TrailTrue
  <2>1. CASE i \in 1 .. Len(audit)
    <3>1. audit'[i] = audit[i] /\ audit[i] \in AdminRows
      BY <1>1, <2>1
    <3>2. AdminDone(audit[i].call) /\ audit[i].call \in AdminCalls
      BY <2>1, <3>1 DEF Administration!TrailTrue, AdminDone, AdminRows
    <3> QED BY <3>1, <3>2 DEF AdminDone
  <2>2. CASE i = Len(audit) + 1
    BY <1>1, <2>2 DEF AdminDone
  <2> QED BY <1>1, <2>1, <2>2
<1>3. \A d \in AdminCalls : Administration!Audited(d, "wallet.credit")
      \/ r = Administration!Row(d, "wallet.credit")
                            => Administration!Audited(d, "wallet.credit")'
  BY <1>1 DEF Administration!Audited, Administration!Row
<1> QED BY <1>1, <1>2, <1>3

LEMMA StillTrue ==
  ASSUME AdminInv, UNCHANGED audit, \A d \in AdminCalls : AdminDone(d) => AdminDone(d)'
  PROVE  Administration!TrailTrue'
<1> SUFFICES ASSUME NEW i \in 1 .. Len(audit) PROVE AdminDone(audit[i].call)'
  BY DEF Administration!TrailTrue, AdminDone
<1>0. Administration!TrailTrue /\ audit \in Seq(AdminRows)
  BY DEF AdminInv
<1>1. AdminDone(audit[i].call) /\ audit[i] \in AdminRows
  BY <1>0 DEF Administration!TrailTrue, AdminDone
<1> QED BY <1>1 DEF AdminRows

LEMMA AdminInvStep ==
  ASSUME Administration!AdministrationAssumption
           PROVE AdminInv /\ [Administration!Next]_(Administration!vars) => AdminInv'
<1> SUFFICES ASSUME AdminInv, [Administration!Next]_(Administration!vars) PROVE AdminInv'
  OBVIOUS
<1>0. /\ Kind \in [AdminCalls -> {"status", "credit", "setting"}]
           /\ Value \in [AdminCalls -> AdminValues]
      /\ Tries \in [AdminCalls -> Nat \ {0}]
  BY DEF Administration!AdministrationAssumption
<1>q. ASSUME UNCHANGED did PROVE \A d \in AdminCalls : AdminDone(d)' <=> AdminDone(d)
  BY <1>q DEF AdminDone
<1>r. ASSUME UNCHANGED audit
      PROVE  \A d \in AdminCalls : Administration!Audited(d, "wallet.credit")'
               <=> Administration!Audited(d, "wallet.credit")
  BY <1>r DEF Administration!Audited, Administration!Row
<1>s. ASSUME UNCHANGED <<audit, did>>
             PROVE Administration!TrailTrue' /\ Administration!CreditedOnce'
  BY <1>s DEF AdminInv, Administration!TrailTrue, Administration!CreditedOnce
<1>t. \A c \in AdminCalls : \A a \in AdminActions : Administration!Row(c, a) \in AdminRows
      /\ Administration!Row(c, a).call = c
  BY <1>0 DEF Administration!Row, AdminRows
<1>u. \A c \in AdminCalls : Administration!Permitted(c)' <=> Administration!Permitted(c)
  BY DEF Administration!Permitted
<1> USE DEF AdminInv, Administration!Goto, Administration!Running, Administration!Points
<1>1. ASSUME NEW c \in AdminCalls, Administration!Call(c) PROVE AdminInv'
  BY <1>0, <1>1, <1>q, <1>r, <1>s, <1>u DEF Administration!Call
<1>2. ASSUME NEW c \in AdminCalls, Administration!SetStatus(c) PROVE AdminInv'
  <2>1. Kind[c] # "credit" /\ did' = Append(did, c)
        /\ UNCHANGED <<audit, administration_ledger>>
    BY <1>2 DEF Administration!SetStatus, Administration!Mutated
  <2>2. /\ did' \in Seq(AdminCalls) /\ Administration!CreditedOnce' /\ AdminDone(c)'
        /\ \A d \in AdminCalls : AdminDone(d) => AdminDone(d)'
        /\ \A i \in 1 .. Len(did') : did'[i] = c \/ \E j \in 1 .. Len(did) : did[j] = did'[i]
    BY <2>1, DidMore
  <2>3. Administration!TrailTrue'
    BY <2>1, <2>2, StillTrue
  <2>4. \A i \in 1 .. Len(did') : Kind[did'[i]] = "credit" => did'[i] \in administration_ledger'
    BY <2>1, <2>2
  <2> QED BY <1>0, <1>2, <1>r, <1>u, <2>1, <2>2, <2>3, <2>4 DEF Administration!SetStatus
<1>3. ASSUME NEW c \in AdminCalls, Administration!Credit(c) PROVE AdminInv'
  <2>1. CASE c \in administration_ledger
    BY <1>0, <1>3, <1>q, <1>r, <1>s, <1>u, <2>1 DEF Administration!Credit
  <2>2. CASE c \notin administration_ledger
    <3>1. /\ did' = Append(did, c)
               /\ audit' = Append(audit, Administration!Row(c, "wallet.credit"))
          /\ administration_ledger' = administration_ledger \cup {c}
      BY <1>3, <2>2 DEF Administration!Credit, Administration!Mutated
    <3>2. /\ did' \in Seq(AdminCalls) /\ Administration!CreditedOnce' /\ AdminDone(c)'
          /\ \A d \in AdminCalls : AdminDone(d) => AdminDone(d)'
          /\ \A i \in 1 .. Len(did') : did'[i] = c \/ \E j \in 1 .. Len(did) : did[j] = did'[i]
      BY <2>2, <3>1, DidMore
    <3>3. Administration!Row(c, "wallet.credit") \in AdminRows
          /\ Administration!Row(c, "wallet.credit").call = c
      BY <1>t DEF AdminActions
    <3>4. /\ audit' \in Seq(AdminRows) /\ Administration!TrailTrue'
               /\ Administration!Audited(c, "wallet.credit")'
          /\ \A d \in AdminCalls : Administration!Audited(d, "wallet.credit")
               => Administration!Audited(d, "wallet.credit")'
      BY <3>1, <3>2, <3>3, WroteMore
    <3>5. \A i \in 1 .. Len(did') : Kind[did'[i]] = "credit"
          => did'[i] \in administration_ledger'
      BY <3>1, <3>2
    <3> QED BY <1>0, <1>3, <1>u, <3>1, <3>2, <3>4, <3>5 DEF Administration!Credit
  <2> QED BY <2>1, <2>2
<1>4. ASSUME NEW c \in AdminCalls, Administration!UpsertAppSetting(c) PROVE AdminInv'
  <2>1. Kind[c] # "credit" /\ did' = Append(did, c)
        /\ UNCHANGED <<audit, administration_ledger>>
    BY <1>4 DEF Administration!UpsertAppSetting, Administration!Mutated
  <2>2. /\ did' \in Seq(AdminCalls) /\ Administration!CreditedOnce' /\ AdminDone(c)'
        /\ \A d \in AdminCalls : AdminDone(d) => AdminDone(d)'
        /\ \A i \in 1 .. Len(did') : did'[i] = c \/ \E j \in 1 .. Len(did) : did[j] = did'[i]
    BY <2>1, DidMore
  <2>3. Administration!TrailTrue'
    BY <2>1, <2>2, StillTrue
  <2>4. \A i \in 1 .. Len(did') : Kind[did'[i]] = "credit" => did'[i] \in administration_ledger'
    BY <2>1, <2>2
  <2> QED BY <1>0, <1>4, <1>r, <1>u, <2>1, <2>2, <2>3, <2>4 DEF Administration!UpsertAppSetting
<1>5. ASSUME NEW c \in AdminCalls, Administration!WriteAudit(c) PROVE AdminInv'
  <2>1. audit' = Append(audit, Administration!Row(c, Administration!Action(c)))
        /\ UNCHANGED <<did, administration_ledger>> /\ AdminDone(c)
    BY <1>5 DEF Administration!WriteAudit
  <2>2. Administration!Action(c) \in AdminActions
    BY <1>0 DEF Administration!Action, AdminActions
  <2>3. /\ audit' \in Seq(AdminRows) /\ Administration!TrailTrue'
        /\ \A d \in AdminCalls : Administration!Audited(d, "wallet.credit")
             => Administration!Audited(d, "wallet.credit")'
    BY <1>q, <1>t, <2>1, <2>2, WroteMore
  <2>4. Administration!CreditedOnce'
    BY <2>1 DEF Administration!CreditedOnce
  <2> QED BY <1>0, <1>5, <1>q, <1>u, <2>1, <2>3, <2>4 DEF Administration!WriteAudit
<1>6. ASSUME NEW c \in AdminCalls, Administration!Revoke(c) PROVE AdminInv'
  BY <1>0, <1>6, <1>q, <1>r, <1>s, <1>u DEF Administration!Revoke
<1>7. ASSUME NEW c \in AdminCalls, Administration!Respond(c) PROVE AdminInv'
  <2>1. CASE UNCHANGED audit
    BY <1>0, <1>7, <1>q, <1>r, <1>s, <1>u, <2>1 DEF Administration!Respond
  <2>2. CASE audit' = Append(audit, Administration!Row(c, "http.admin"))
    <3>1. Administration!Row(c, "http.admin") \in AdminRows
          /\ Administration!Row(c, "http.admin").call = c /\ AdminDone(c)
               /\ UNCHANGED <<did, administration_ledger>>
      BY <1>7, <1>t DEF Administration!Respond, AdminActions
    <3>2. /\ audit' \in Seq(AdminRows) /\ Administration!TrailTrue'
          /\ \A d \in AdminCalls : Administration!Audited(d, "wallet.credit")
               => Administration!Audited(d, "wallet.credit")'
      BY <1>q, <2>2, <3>1, WroteMore
    <3>3. Administration!CreditedOnce'
      BY <3>1 DEF Administration!CreditedOnce
    <3> QED BY <1>0, <1>7, <1>q, <1>u, <3>1, <3>2, <3>3 DEF Administration!Respond
  <2> QED BY <1>7, <2>1, <2>2 DEF Administration!Respond
<1>8. ASSUME NEW c \in AdminCalls, Administration!Fail(c) PROVE AdminInv'
  BY <1>0, <1>8, <1>q, <1>r, <1>s, <1>u DEF Administration!Fail
<1>9. CASE Administration!Crash
  BY <1>0, <1>9, <1>q, <1>r, <1>s, <1>u DEF Administration!Crash
<1>10. CASE UNCHANGED Administration!vars
  BY <1>0, <1>10, <1>q, <1>r, <1>s, <1>u DEF Administration!vars
<1> QED BY <1>1, <1>2, <1>3, <1>4, <1>5, <1>6, <1>7, <1>8, <1>9, <1>10 DEF Administration!Next

\* Whatever fails, crashes and is retried, the audit log tells of nothing that was not
\* committed before, every credit has the row of the wallet, and none is made twice
\* (admin.service.ts, wallet.credit).
THEOREM AdministrationSafe ==
  ASSUME Administration!AdministrationAssumption
  PROVE  Administration!Spec
           => [](Administration!TypeOK /\ Administration!TrailTrue
             /\ Administration!CreditsExplained /\ Administration!CreditedOnce)
<1>1. AdminInv => Administration!TypeOK /\ Administration!TrailTrue
      /\ Administration!CreditsExplained /\ Administration!CreditedOnce
  <2>1. ASSUME AdminInv PROVE \A i \in 1 .. Len(audit) : audit[i].call \in AdminCalls
    <3> SUFFICES ASSUME NEW i \in 1 .. Len(audit) PROVE audit[i].call \in AdminCalls
      OBVIOUS
    <3>1. audit[i] \in AdminRows
      BY <2>1 DEF AdminInv
    <3> QED BY <3>1 DEF AdminRows
  <2> QED BY <2>1 DEF AdminInv, Administration!TypeOK, Administration!CreditsExplained
<1> QED BY AdminInvInit, AdminInvStep, <1>1, PTL DEF Administration!Spec

(* Failures on their way to a client (module Errors). *)

\* What a stage can throw, whichever it is.
Exceptions ==
    {Errors!Thrown("Domain", s, {}) : s \in Errors!DomainStatuses}
      \cup {Errors!Thrown("Domain", 422, Fields)}
    \cup {Errors!Thrown("Http", s, {}) : s \in {400, 401, 404, 409, 429}}
      \cup {Errors!Thrown("Http", 400, Fields)}
    \cup {Errors!Thrown(p, None, {}) : p \in {"P2002", "P2025", "P2003", "P2034", "Prisma",
                                       "PrismaValidation", "Error"}}
    \cup {Errors!Thrown("Zod", None, Fields)}

LEMMA ErrorsFinite == ASSUME NEW S PROVE Errors!IsFiniteSet(S) = IsFiniteSet(S)
  BY Zenon DEF Errors!IsFiniteSet, IsFiniteSet
LEMMA ErrorsCount == ASSUME NEW S PROVE Errors!Cardinality(S) = Cardinality(S)
  BY Zenon DEF Errors!Cardinality, Cardinality

LEMMA RaisedAre == \A n \in 1 .. Len(Errors!Stages) :
  Errors!Raised(Errors!Stages[n]) \subseteq Exceptions
<1> SUFFICES ASSUME NEW n \in 1 .. Len(Errors!Stages)
    PROVE Errors!Raised(Errors!Stages[n]) \subseteq Exceptions
  OBVIOUS
<1>1. Len(Errors!Stages) = 8
  BY DEF Errors!Stages
<1>2. n \in {1, 2, 3, 4, 5, 6, 7, 8}
  BY <1>1
<1>3. Errors!Stages[n] \in {"middleware", "throttler", "jwt", "roles", "idempotency",
      "interceptors",
                     "pipes", "handler"}
  BY <1>2 DEF Errors!Stages
<1> QED BY <1>3 DEF Errors!Raised, Exceptions, Errors!DomainStatuses

\* What the filter makes of an exception is a status, and a fixed text for a 5xx in
\* production.
LEMMA Problems ==
  ASSUME NEW e \in Exceptions
  PROVE  /\ Errors!ToProblem(e).status \in Nat
              /\ Errors!ToProblem(e).detail \in {"own", "fixed"}
         /\ e.fields \in {{}, Fields}
         /\ Errors!ToProblem(e).status >= 500 => Errors!ToProblem(e).detail = "fixed"
<1>1. CASE e \in {Errors!Thrown("Domain", s, {}) : s \in Errors!DomainStatuses}
  BY <1>1 DEF Errors!ToProblem, Errors!Thrown, Errors!DomainStatuses
<1>2. CASE e = Errors!Thrown("Domain", 422, Fields)
  BY <1>2 DEF Errors!ToProblem, Errors!Thrown
<1>3. CASE e \in {Errors!Thrown("Http", s, {}) : s \in {400, 401, 404, 409, 429}}
  BY <1>3 DEF Errors!ToProblem, Errors!Thrown
<1>4. CASE e = Errors!Thrown("Http", 400, Fields)
  BY <1>4 DEF Errors!ToProblem, Errors!Thrown
<1>5. CASE e \in {Errors!Thrown(p, None, {}) :
      p \in {"P2002", "P2025", "P2003", "P2034", "Prisma"}}
  BY <1>5 DEF Errors!ToProblem, Errors!Thrown, Errors!FromPrismaError
<1>6. CASE e = Errors!Thrown("PrismaValidation", None, {})
  BY <1>6 DEF Errors!ToProblem, Errors!Thrown
<1>7. CASE e = Errors!Thrown("Error", None, {})
  BY <1>7 DEF Errors!ToProblem, Errors!Thrown
<1>8. CASE e = Errors!Thrown("Zod", None, Fields)
  BY <1>8 DEF Errors!ToProblem, Errors!Thrown
<1> QED BY <1>1, <1>2, <1>3, <1>4, <1>5, <1>6, <1>7, <1>8 DEF Exceptions

Docs == [status : Nat, detail : {"own", "fixed"}, correlationId : Nat,
         fields : {{}, Fields}, errors : SUBSET Nat]
ApiErrors == [status : Nat, correlationId : Nat \cup {None}, fieldErrors : SUBSET Nat]

ErrorTypes ==
    /\ errors_call \in [ApiCalls -> [state : {"idle", "sent", "answered", "failed", "done"},
                           stage : 1 .. Len(Errors!Stages), id : Nat \cup {None}, attempts :
                             0 .. 3]]
    /\ minted \in Nat /\ logged \subseteq Nat \X ApiCalls \X (0 .. 3)
    /\ header \in [ApiCalls -> Nat \cup {None}]
    /\ problem \in [ApiCalls -> Docs \cup {None}]
         /\ error \in [ApiCalls -> ApiErrors \cup {None}]

\* A correlation id belongs to one attempt of one call, which has it from the interceptor on
\* and logs it once.
ErrorIds ==
         /\ \A c \in ApiCalls : /\ errors_call[c].id \in 1 .. minted \cup {None}
                                   /\ header[c] = errors_call[c].id
                                /\ errors_call[c].id # None <=> errors_call[c].stage > 6
                                /\ errors_call[c].state = "idle"
                                     => errors_call[c].attempts = 0 /\ errors_call[c].id = None
         /\ \A c, d \in ApiCalls : errors_call[c].id = errors_call[d].id
              /\ errors_call[c].id # None => c = d
         /\ \A l \in logged : l[1] <= minted
         /\ \A l, m \in logged : l[1] = m[1] /\ l[1] # Errors!Unknown => l = m
         /\ \A l \in logged : \A c \in ApiCalls : l[1] = errors_call[c].id
              => errors_call[c].state # "sent"

\* Documents and what clients make of them.
Documents ==
    /\ \A c \in ApiCalls : problem[c] # None =>
          /\ problem[c].status \in Nat
          /\ problem[c].status >= 500 => problem[c].detail = "fixed"
    /\ \A c \in ApiCalls : errors_call[c].state = "answered" =>
          /\ problem[c] \in Docs
          /\ errors_call[c].stage > 6 => /\ problem[c].correlationId = errors_call[c].id
                                         /\ <<errors_call[c].id, c,
                                              errors_call[c].attempts>> \in logged
    /\ \A c \in ApiCalls : errors_call[c].state = "failed" => error[c].status \in Nat
    /\ \A c \in ApiCalls : Errors!Told(c) =>
          /\ error[c].status = problem[c].status
          /\ errors_call[c].stage > 6 => /\ error[c].correlationId = errors_call[c].id
                                         /\ <<errors_call[c].id, c,
                                              errors_call[c].attempts>> \in logged
    /\ \A s \in retried : s \in Nat /\ Errors!IsRetryable(s)

ErrorInv == ErrorTypes /\ ErrorIds /\ Documents

LEMMA StagesAre == Len(Errors!Stages) = 8
  /\ \A n \in 1 .. 8 : Errors!Stages[n] = "interceptors" <=> n = 6
<1>1. Len(Errors!Stages) = 8
  BY DEF Errors!Stages
<1>2. \A n \in {1, 2, 3, 4, 5, 6, 7, 8} : Errors!Stages[n] = "interceptors" <=> n = 6
  BY DEF Errors!Stages
<1> QED BY <1>1, <1>2

LEMMA ErrorInvInit == ASSUME Errors!ErrorsAssumption PROVE Errors!Init => ErrorInv
<1> SUFFICES ASSUME Errors!Init PROVE ErrorInv
  OBVIOUS
<1>1. errors_call \in [ApiCalls -> [state : {"idle", "sent", "answered", "failed", "done"},
                          stage : 1 .. Len(Errors!Stages), id : Nat \cup {None}, attempts :
                            0 .. 3]]
  BY StagesAre DEF Errors!Init
<1>2. \A c \in ApiCalls :
      errors_call[c] = [state |-> "idle", stage |-> 1, id |-> None, attempts |-> 0]
  BY DEF Errors!Init
<1> QED BY <1>1, <1>2 DEF Errors!Init, ErrorInv, ErrorTypes, ErrorIds, Documents, Errors!Told

\* What the filter does with an exception.
LEMMA Caught ==
  ASSUME Errors!ErrorsAssumption, ErrorInv, NEW c \in ApiCalls,
           NEW e \in Errors!Raised(Errors!Stages[errors_call[c].stage]),
         Errors!Catch(c, e), NEW mine, mine = IF errors_call[c].id = None THEN Errors!Unknown
           ELSE errors_call[c].id
  PROVE  /\ mine \in Nat /\ problem' = [problem EXCEPT ![c] = problem'[c]]
              /\ problem'[c] \in Docs
         /\ problem'[c].correlationId = mine
         /\ problem'[c].status >= 500 => problem'[c].detail = "fixed"
         /\ logged' = logged \cup {<<mine, c, errors_call[c].attempts>>}
         /\ errors_call[c].state = "sent"
              /\ errors_call' = [errors_call EXCEPT ![c].state = "answered"]
         /\ UNCHANGED <<minted, header, error, retried>>
<1> DEFINE doc == [status |-> Errors!ToProblem(e).status, detail |-> Errors!ToProblem(e).detail,
                   correlationId |-> mine, fields |-> e.fields,
                   errors |-> IF e.fields = {} THEN {} ELSE 0 .. Cardinality(e.fields) - 1]
<1>1. e \in Exceptions
  BY RaisedAre, StagesAre DEF ErrorInv, ErrorTypes
<1>2. e.fields # {} => Cardinality(e.fields) \in Nat
  BY <1>1, Problems, FS_CardinalityType, FS_EmptySet, ErrorsFinite DEF Errors!ErrorsAssumption
<1>3. doc.errors \in SUBSET Nat /\ mine \in Nat
  BY <1>2 DEF ErrorInv, ErrorTypes, Errors!Unknown
<1>4. doc \in Docs
  BY <1>1, <1>3, Problems DEF Docs
<1>5. /\ doc.correlationId = mine
      /\ doc.status >= 500 => doc.detail = "fixed"
  BY <1>1, Problems
<1>6. /\ problem' = [problem EXCEPT ![c] = doc]
           /\ logged' = logged \cup {<<mine, c, errors_call[c].attempts>>}
      /\ errors_call[c].state = "sent"
           /\ errors_call' = [errors_call EXCEPT ![c].state = "answered"]
      /\ UNCHANGED <<minted, header, error, retried>>
  BY ErrorsCount DEF Errors!Catch
<1> HIDE DEF doc
<1>7. problem'[c] = doc
  BY <1>6 DEF ErrorInv, ErrorTypes
<1> QED BY <1>3, <1>4, <1>5, <1>6, <1>7

LEMMA ErrorTypesStep ==
  ASSUME Errors!ErrorsAssumption
           PROVE ErrorInv /\ [Errors!Next]_(Errors!vars) => ErrorTypes' /\ ErrorIds'
<1> SUFFICES ASSUME ErrorInv, [Errors!Next]_(Errors!vars) PROVE ErrorTypes' /\ ErrorIds'
  OBVIOUS
<1>0. None \notin Nat
  BY DEF Errors!ErrorsAssumption
<1> USE StagesAre DEF ErrorInv, ErrorTypes, ErrorIds, Errors!Unknown
<1>1. ASSUME NEW c \in ApiCalls, Errors!Send(c) PROVE ErrorTypes' /\ ErrorIds'
  BY <1>0, <1>1 DEF Errors!Send, Errors!Attempt
<1>2. ASSUME NEW c \in ApiCalls, Errors!Pass(c) PROVE ErrorTypes' /\ ErrorIds'
  <2>1. CASE errors_call[c].stage = 6
    BY <1>0, <1>2, <2>1 DEF Errors!Pass
  <2>2. CASE errors_call[c].stage # 6
    <3>1. /\ errors_call' = [errors_call EXCEPT ![c].stage = @ + 1]
               /\ errors_call[c].stage + 1 \in 1 .. 8
          /\ UNCHANGED <<minted, problem, header, error, logged>>
      BY <1>2, <2>2 DEF Errors!Pass
    <3>2. errors_call[c].stage + 1 > 6 <=> errors_call[c].stage > 6
      BY <2>2
    <3> QED BY <1>0, <3>1, <3>2
  <2> QED BY <2>1, <2>2
<1>3. ASSUME NEW c \in ApiCalls, Errors!Succeed(c) PROVE ErrorTypes' /\ ErrorIds'
  BY <1>0, <1>3 DEF Errors!Succeed
<1>4. ASSUME NEW c \in ApiCalls, Errors!Read(c) PROVE ErrorTypes' /\ ErrorIds'
  <2>1. problem[c] \in Docs
    BY <1>4 DEF Errors!Read, Documents
  <2>2. Errors!ParseProblem(c) \in ApiErrors /\ Errors!Synthetic(c) \in ApiErrors
    BY <2>1 DEF Errors!ParseProblem, Errors!Synthetic, Docs, ApiErrors
  <2>3. /\ error' \in [ApiCalls -> ApiErrors \cup {None}]
             /\ UNCHANGED <<minted, problem, header, logged>>
        /\ errors_call' = [errors_call EXCEPT ![c].state = "failed"]
    BY <1>4, <2>2 DEF Errors!Read, Errors!ToApiError
  <2> QED BY <1>0, <2>3
<1>5. ASSUME NEW c \in ApiCalls, Errors!Unreached(c) PROVE ErrorTypes' /\ ErrorIds'
  BY <1>0, <1>5 DEF Errors!Unreached, ApiErrors
<1>6. ASSUME NEW c \in ApiCalls, Errors!Retry(c) PROVE ErrorTypes' /\ ErrorIds'
  BY <1>0, <1>6 DEF Errors!Retry, Errors!Attempt
<1>7. ASSUME NEW c \in ApiCalls, NEW e \in Errors!Raised(Errors!Stages[errors_call[c].stage]),
             Errors!Catch(c, e)
      PROVE  ErrorTypes' /\ ErrorIds'
  <2>1. PICK mine : mine = IF errors_call[c].id = None THEN Errors!Unknown
        ELSE errors_call[c].id
    OBVIOUS
  <2>2. /\ mine \in Nat /\ problem' = [problem EXCEPT ![c] = problem'[c]]
             /\ problem'[c] \in Docs
        /\ logged' = logged \cup {<<mine, c, errors_call[c].attempts>>}
        /\ errors_call[c].state = "sent"
             /\ errors_call' = [errors_call EXCEPT ![c].state = "answered"]
        /\ UNCHANGED <<minted, header, error>>
    BY <1>7, <2>1, Caught
  <2>3. ErrorTypes'
    <3>1. problem' \in [ApiCalls -> Docs \cup {None}]
      <4> DEFINE doc == problem'[c]
      <4>1. problem' = [problem EXCEPT ![c] = doc] /\ doc \in Docs
        BY <2>2
      <4> HIDE DEF doc
      <4> QED BY <4>1
    <3>2. /\ logged' = logged \cup {<<mine, c, errors_call[c].attempts>>} /\ mine \in Nat
          /\ errors_call' = [errors_call EXCEPT ![c].state = "answered"]
          /\ UNCHANGED <<minted, header, error>>
      BY <2>2
    <3> QED BY <3>1, <3>2
  <2>4. /\ mine <= minted /\ \A d \in ApiCalls : mine = errors_call[d].id => d = c
        /\ \A l \in logged : l[1] = mine => mine = 0
    BY <1>0, <2>1, <2>2
  <2>5. \A d \in ApiCalls : /\ errors_call'[d].id = errors_call[d].id
                               /\ errors_call'[d].stage = errors_call[d].stage
                            /\ errors_call'[d].attempts = errors_call[d].attempts
                            /\ d # c => errors_call'[d].state = errors_call[d].state
                            /\ d = c => errors_call'[d].state = "answered"
    BY <1>7 DEF Errors!Catch
  <2>6. \A d \in ApiCalls :
           /\ errors_call'[d].id \in 1 .. minted' \cup {None} /\ header'[d] = errors_call'[d].id
           /\ errors_call'[d].id # None <=> errors_call'[d].stage > 6
           /\ errors_call'[d].state = "idle"
                => errors_call'[d].attempts = 0 /\ errors_call'[d].id = None
    BY <1>0, <2>2, <2>5
  <2>7. \A d, f \in ApiCalls : errors_call'[d].id = errors_call'[f].id
        /\ errors_call'[d].id # None => d = f
    BY <1>0, <2>5
  <2>8. \A l \in logged' : l[1] <= minted'
    BY <1>0, <2>2, <2>4
  <2>9. \A l, m \in logged' : l[1] = m[1] /\ l[1] # Errors!Unknown => l = m
    BY <1>0, <2>2, <2>4
  <2>10. \A l \in logged' : \A d \in ApiCalls : l[1] = errors_call'[d].id
         => errors_call'[d].state # "sent"
    BY <1>0, <2>2, <2>4, <2>5
  <2> QED BY <2>3, <2>6, <2>7, <2>8, <2>9, <2>10, Zenon
<1>8. CASE UNCHANGED Errors!vars
  BY <1>8 DEF Errors!vars
<1> QED BY <1>1, <1>2, <1>3, <1>4, <1>5, <1>6, <1>7, <1>8 DEF Errors!Next

LEMMA DocumentsStep ==
  ASSUME Errors!ErrorsAssumption PROVE ErrorInv /\ [Errors!Next]_(Errors!vars) => Documents'
<1> SUFFICES ASSUME ErrorInv, [Errors!Next]_(Errors!vars) PROVE Documents'
  OBVIOUS
<1>0. None \notin Nat
  BY DEF Errors!ErrorsAssumption
<1> USE DEF ErrorInv, ErrorTypes, ErrorIds, Documents, Errors!Told
<1>1. ASSUME NEW c \in ApiCalls, Errors!Send(c) PROVE Documents'
  BY <1>0, <1>1 DEF Errors!Send, Errors!Attempt
<1>2. ASSUME NEW c \in ApiCalls, Errors!Pass(c) PROVE Documents'
  <2>1. /\ \A d \in ApiCalls : d # c => errors_call'[d] = errors_call[d]
        /\ errors_call'[c].state = "sent" /\ UNCHANGED <<problem, error, logged, retried>>
    BY <1>2 DEF Errors!Pass
  <2> QED BY <2>1
<1>3. ASSUME NEW c \in ApiCalls, Errors!Succeed(c) PROVE Documents'
  BY <1>0, <1>3 DEF Errors!Succeed
<1>4. ASSUME NEW c \in ApiCalls, Errors!Read(c) PROVE Documents'
  <2>1. problem[c] \in Docs /\ errors_call[c].state = "answered"
        /\ UNCHANGED <<problem, logged, retried>>
    BY <1>4 DEF Errors!Read
  <2>2. /\ \A d \in ApiCalls : d # c => errors_call'[d] = errors_call[d] /\ error'[d] = error[d]
        /\ errors_call'[c].id = errors_call[c].id
             /\ errors_call'[c].stage = errors_call[c].stage
        /\ errors_call'[c].attempts = errors_call[c].attempts
             /\ errors_call'[c].state = "failed"
        /\ error'[c].status = problem[c].status
        /\ error'[c].correlationId \in {problem[c].correlationId, header[c]}
    BY <1>4 DEF Errors!Read, Errors!ParseProblem, Errors!Synthetic, Errors!ToApiError
  <2>3. /\ error'[c].status \in Nat
        /\ errors_call[c].stage > 6 => error'[c].correlationId = errors_call[c].id
    BY <1>0, <2>1, <2>2 DEF Docs
  <2> HIDE DEF ErrorTypes, ErrorIds
  <2> QED BY <2>1, <2>2, <2>3
<1>5. ASSUME NEW c \in ApiCalls, Errors!Unreached(c) PROVE Documents'
  BY <1>0, <1>5 DEF Errors!Unreached
<1>6. ASSUME NEW c \in ApiCalls, Errors!Retry(c) PROVE Documents'
  BY <1>0, <1>6 DEF Errors!Retry, Errors!Attempt
<1>7. ASSUME NEW c \in ApiCalls, NEW e \in Errors!Raised(Errors!Stages[errors_call[c].stage]),
             Errors!Catch(c, e)
      PROVE  Documents'
  <2>0. e \in Exceptions
    BY RaisedAre
  <2>1. PICK mine : mine = IF errors_call[c].id = None THEN Errors!Unknown
        ELSE errors_call[c].id
    OBVIOUS
  <2>2. /\ problem' = [problem EXCEPT ![c] = problem'[c]] /\ problem'[c] \in Docs
        /\ problem'[c].correlationId = mine
        /\ problem'[c].status >= 500 => problem'[c].detail = "fixed"
        /\ logged' = logged \cup {<<mine, c, errors_call[c].attempts>>}
        /\ errors_call' = [errors_call EXCEPT ![c].state = "answered"]
             /\ UNCHANGED <<error, retried>>
    BY <1>7, <2>1, Caught
  <2>3. \A d \in ApiCalls : /\ errors_call'[d].id = errors_call[d].id
                               /\ errors_call'[d].stage = errors_call[d].stage
                            /\ errors_call'[d].attempts = errors_call[d].attempts
                            /\ d # c => errors_call'[d].state = errors_call[d].state
                                 /\ problem'[d] = problem[d]
                            /\ d = c => errors_call'[d].state = "answered"
    BY <2>2
  <2>4. problem'[c].status \in Nat /\ (errors_call[c].stage > 6 => mine = errors_call[c].id)
    BY <2>1, <2>2 DEF Docs
  <2> HIDE DEF ErrorTypes, ErrorIds
  <2> QED BY <2>2, <2>3, <2>4
<1>8. CASE UNCHANGED Errors!vars
  BY <1>8 DEF Errors!vars
<1> QED BY <1>1, <1>2, <1>3, <1>4, <1>5, <1>6, <1>7, <1>8 DEF Errors!Next

\* Whatever stage fails with whatever, in production no client reads an internal message of a
\* 5xx, the failure it sees is the one the API decided on, no refusal is tried again that a
\* repetition cannot change, and the reference of a failure of the pipe or the handler is that
\* of one entry of the log (http-exception.filter.ts, request() of the clients).
THEOREM ErrorsSafe ==
  ASSUME Errors!ErrorsAssumption
  PROVE  Errors!Spec => [](Errors!TypeOK /\ Errors!NeverLeaks /\ Errors!SameFailure
           /\ Errors!RefusalsAreFinal /\ Errors!HandlerGreppable)
<1>1. ErrorInv => Errors!TypeOK /\ Errors!NeverLeaks /\ Errors!SameFailure
  BY DEF ErrorInv, ErrorTypes, ErrorIds, Documents, Errors!TypeOK, Errors!NeverLeaks,
       Errors!SameFailure
<1>2. ErrorInv => Errors!RefusalsAreFinal
  BY DEF ErrorInv, Documents, Errors!RefusalsAreFinal, Errors!IsRetryable
<1>3. ErrorInv => Errors!HandlerGreppable
  <2> SUFFICES ASSUME ErrorInv, NEW c \in ApiCalls, Errors!Told(c), errors_call[c].stage > 6
               PROVE  Cardinality({l \in logged : l[1] = error[c].correlationId}) = 1
    BY ErrorsCount DEF Errors!HandlerGreppable
  <2> DEFINE entry == <<errors_call[c].id, c, errors_call[c].attempts>>
  <2>1. entry \in logged /\ error[c].correlationId = errors_call[c].id
        /\ errors_call[c].id \in 1 .. minted
    BY DEF ErrorInv, ErrorIds, Documents
  <2>2. \A l \in logged : l[1] = errors_call[c].id => l = entry
    BY <2>1 DEF ErrorInv, ErrorIds, ErrorTypes, Errors!Unknown
  <2>3. {l \in logged : l[1] = error[c].correlationId} = {entry}
    BY <2>1, <2>2
  <2> QED BY <2>3, FS_Singleton
<1>4. ErrorInv /\ [Errors!Next]_(Errors!vars) => ErrorInv'
  BY ErrorTypesStep, DocumentsStep DEF ErrorInv
<1> QED BY ErrorInvInit, <1>1, <1>2, <1>3, <1>4, PTL DEF Errors!Spec

(* The life of the server (module Lifecycle). *)

\* The server listens once every store is connected to, and a connection that was made is
\* never none again; an open request has commands left; a probe that has begun has seen
\* what was up since.
ServerInv ==
    /\ Lifecycle!TypeOK
    /\ server \/ phase = "listening" \/ Lifecycle!Signalled
         => \A s \in Lifecycle!Stores : conn[s] # "none"
    /\ Lifecycle!ServesConnected
    /\ \A q \in Lifecycle!Open : left[q] > 0
    /\ \A s \in Lifecycle!Stores : probe[s] = "up" => s \in was
    /\ probe # Lifecycle!NotProbed => up \subseteq was

LEMMA ServerInvInit == ASSUME Lifecycle!LifecycleAssumption PROVE Lifecycle!Init => ServerInv
<1> SUFFICES ASSUME Lifecycle!Init PROVE ServerInv
  OBVIOUS
<1>1. Lifecycle!TypeOK
  <2>1. /\ left \in [Requests -> 0 .. Commands] /\ outages \in 0 .. MaxOutages
        /\ request \in [Requests -> {"none", "open", "answered", "failed", "cut"}]
    BY DEF Lifecycle!LifecycleAssumption, Lifecycle!Init
  <2>2. /\ closer \in [Lifecycle!Closers -> {"idle", "stores", "server", "over"}]
        /\ todo \in [Lifecycle!Closers -> SUBSET Lifecycle!Stores]
             /\ probe \in [Lifecycle!Stores -> {"none", "up", "down"}]
        /\ conn \in [Lifecycle!Stores -> {"none", "retrying", "open", "closed"}]
    BY DEF Lifecycle!Init, Lifecycle!NotProbed
  <2>3. /\ phase \in {"connecting", "listening", "rejected"} /\ up \subseteq Lifecycle!Stores
        /\ server \in BOOLEAN /\ ready \in {"none", "ok", "degraded"}
             /\ was \subseteq Lifecycle!Stores
        /\ asked \subseteq Requests /\ exit \in {"running", "ok", "error"}
    BY DEF Lifecycle!Init
  <2> QED BY <2>1, <2>2, <2>3 DEF Lifecycle!TypeOK
<1> QED BY <1>1 DEF Lifecycle!Init, ServerInv, Lifecycle!ServesConnected, Lifecycle!Signalled,
     Lifecycle!NotProbed, Lifecycle!Open

LEMMA ServerInvStep ==
  ASSUME Lifecycle!LifecycleAssumption
           PROVE ServerInv /\ [Lifecycle!Next]_(Lifecycle!vars) => ServerInv'
<1> SUFFICES ASSUME ServerInv, [Lifecycle!Next]_(Lifecycle!vars) PROVE ServerInv'
  OBVIOUS
<1>0. Commands \in Nat \ {0} /\ MaxOutages \in Nat
  BY DEF Lifecycle!LifecycleAssumption
<1> USE DEF ServerInv, Lifecycle!TypeOK, Lifecycle!ServesConnected, Lifecycle!Signalled,
    Lifecycle!NotProbed, Lifecycle!Stores, Lifecycle!Closers, Lifecycle!traffic,
      Lifecycle!probing,
            Lifecycle!closing, Lifecycle!Running, Lifecycle!Open
<1>1. ASSUME NEW s \in Lifecycle!Stores, Lifecycle!Outage(s) PROVE ServerInv'
  BY <1>0, <1>1 DEF Lifecycle!Outage
<1>2. ASSUME NEW s \in Lifecycle!Stores, Lifecycle!OnModuleInit(s) PROVE ServerInv'
  BY <1>0, <1>2 DEF Lifecycle!OnModuleInit
<1>3. ASSUME NEW s \in Lifecycle!Stores, Lifecycle!Check(s) PROVE ServerInv'
  BY <1>0, <1>3 DEF Lifecycle!Check, Lifecycle!Answers
<1>4. CASE Lifecycle!Listen
  BY <1>0, <1>4 DEF Lifecycle!Listen
<1>5. CASE Lifecycle!NothingLeft
  BY <1>0, <1>5 DEF Lifecycle!NothingLeft
<1>6. CASE Lifecycle!Readiness
  BY <1>0, <1>6 DEF Lifecycle!Readiness
<1>7. CASE Lifecycle!Signal
  BY <1>0, <1>7 DEF Lifecycle!Signal
<1>8. ASSUME NEW q \in Requests, Lifecycle!Accept(q) PROVE ServerInv'
  BY <1>0, <1>8 DEF Lifecycle!Accept
<1>9. ASSUME NEW q \in Requests, NEW s \in Lifecycle!Stores, Lifecycle!Command(q, s)
             PROVE ServerInv'
  BY <1>0, <1>9 DEF Lifecycle!Command, Lifecycle!Answers
<1>10. ASSUME NEW c \in Lifecycle!Closers, Lifecycle!Dispose(c) PROVE ServerInv'
  BY <1>0, <1>10 DEF Lifecycle!Dispose
<1>11. ASSUME NEW c \in Lifecycle!Closers, Lifecycle!Ended(c) PROVE ServerInv'
  BY <1>0, <1>11 DEF Lifecycle!Ended
<1>12. ASSUME NEW c \in Lifecycle!Closers, NEW s \in Lifecycle!Stores,
              Lifecycle!OnModuleDestroy(c, s) PROVE ServerInv'
  BY <1>0, <1>12 DEF Lifecycle!OnModuleDestroy
<1>13. CASE UNCHANGED Lifecycle!vars
  BY <1>13 DEF Lifecycle!vars
<1> QED BY <1>1, <1>2, <1>3, <1>4, <1>5, <1>6, <1>7, <1>8, <1>9, <1>10, <1>11, <1>12, <1>13
     DEF Lifecycle!Next, Lifecycle!Close

\* Whatever goes down when, no request meets a store that the process has not connected to,
\* and the readiness probe answers 200 only if each store was up at some moment of that probe
\* (PrismaService, RedisService, HealthController.readiness).
THEOREM LifecycleSafe ==
  ASSUME Lifecycle!LifecycleAssumption
  PROVE  Lifecycle!Spec
           => [](Lifecycle!TypeOK /\ Lifecycle!ServesConnected)
             /\ [][Lifecycle!ReadyMeansUp]_(Lifecycle!vars)
<1>1. ServerInv => Lifecycle!TypeOK /\ Lifecycle!ServesConnected
  BY DEF ServerInv
<1>2. ServerInv /\ [Lifecycle!Next]_(Lifecycle!vars)
      => [Lifecycle!ReadyMeansUp]_(Lifecycle!vars)
  <2> SUFFICES ASSUME ServerInv, Lifecycle!Next, ready' =
      "ok", probe # Lifecycle!NotProbed, probe' = Lifecycle!NotProbed
               PROVE  was = Lifecycle!Stores
    BY DEF Lifecycle!ReadyMeansUp
  <2>1. Lifecycle!Readiness
    BY DEF ServerInv, Lifecycle!TypeOK, Lifecycle!Next, Lifecycle!Close, Lifecycle!Outage,
         Lifecycle!OnModuleInit, Lifecycle!Check, Lifecycle!Listen, Lifecycle!NothingLeft,
           Lifecycle!Signal, Lifecycle!Accept,
           Lifecycle!Command, Lifecycle!Dispose, Lifecycle!Ended, Lifecycle!OnModuleDestroy,
             Lifecycle!NotProbed, Lifecycle!probing, Lifecycle!Stores
  <2> QED BY <2>1 DEF Lifecycle!Readiness, ServerInv, Lifecycle!TypeOK
<1> QED BY ServerInvInit, ServerInvStep, <1>1, <1>2, PTL DEF Lifecycle!Spec

-----------------------------------------------------------------------------
(* The whole: a part that runs is a run of its component, while the others rest. *)

LEMMA SessionsRun == Spec => Sessions!Spec \/ []~(part = "sessions")
<1>1. Init /\ part = "sessions" => Sessions!Init
  BY DEF Init
<1>2. [Next]_vars /\ part = "sessions" => [Sessions!Next]_(Sessions!vars)
  BY DEF Next, vars, sessionsVars, Sessions!vars, Sessions!account, Sessions!rows,
       Sessions!redis, Sessions!tokens, Sessions!work, Sessions!reports
<1>3. [Next]_vars => ((part = "sessions")' <=> part = "sessions")
  BY DEF Next, vars
<1> QED BY <1>1, <1>2, <1>3, PTL DEF Spec, Sessions!Spec

LEMMA SessionsCrashRun == Spec => SessionsCrash!Spec \/ []~(part = "sessions_crash")
<1>1. Init /\ part = "sessions_crash" => SessionsCrash!Init
  BY DEF Init
<1>2. [Next]_vars /\ part = "sessions_crash" => [SessionsCrash!Next]_(SessionsCrash!vars)
  BY DEF Next, vars, sessionsVars, SessionsCrash!vars, SessionsCrash!account,
       SessionsCrash!rows, SessionsCrash!redis, SessionsCrash!tokens, SessionsCrash!work,
         SessionsCrash!reports
<1>3. [Next]_vars => ((part = "sessions_crash")' <=> part = "sessions_crash")
  BY DEF Next, vars
<1> QED BY <1>1, <1>2, <1>3, PTL DEF Spec, SessionsCrash!Spec

LEMMA TokensRun == Spec => Tokens!Spec \/ []~(part = "tokens")
<1>1. Init /\ part = "tokens" => Tokens!Init
  BY DEF Init
<1>2. [Next]_vars /\ part = "tokens" => [Tokens!Next]_(Tokens!vars)
  BY DEF Next, vars, tokensVars, Tokens!vars
<1>3. [Next]_vars => ((part = "tokens")' <=> part = "tokens")
  BY DEF Next, vars
<1> QED BY <1>1, <1>2, <1>3, PTL DEF Spec, Tokens!Spec

LEMMA RegistrationRuns == Spec => Registration!Spec \/ []~(part = "registration")
<1>1. Init /\ part = "registration" => Registration!Init
  BY DEF Init
<1>2. [Next]_vars /\ part = "registration" => [Registration!Next]_(Registration!vars)
  BY DEF Next, vars, registrationVars, Registration!vars, Registration!calls
<1>3. [Next]_vars => ((part = "registration")' <=> part = "registration")
  BY DEF Next, vars
<1> QED BY <1>1, <1>2, <1>3, PTL DEF Spec, Registration!Spec

LEMMA VerificationRuns == Spec => Verification!Spec \/ []~(part = "verification")
<1>1. Init /\ part = "verification" => Verification!Init
  BY DEF Init
<1>2. [Next]_vars /\ part = "verification" => [Verification!Next]_(Verification!vars)
  BY DEF Next, vars, verificationVars, Verification!vars, Verification!account,
       Verification!args
<1>3. [Next]_vars => ((part = "verification")' <=> part = "verification")
  BY DEF Next, vars
<1> QED BY <1>1, <1>2, <1>3, PTL DEF Spec, Verification!Spec

LEMMA ResetCodesRun == Spec => ResetCodes!Spec \/ []~(part = "reset_codes")
<1>1. Init /\ part = "reset_codes" => ResetCodes!Init
  BY DEF Init
<1>2. [Next]_vars /\ part = "reset_codes" => [ResetCodes!Next]_(ResetCodes!vars)
  BY DEF Next, vars, resetCodesVars, ResetCodes!vars
<1>3. [Next]_vars => ((part = "reset_codes")' <=> part = "reset_codes")
  BY DEF Next, vars
<1> QED BY <1>1, <1>2, <1>3, PTL DEF Spec, ResetCodes!Spec

LEMMA AccountRuns == Spec => Account!Spec \/ []~(part = "account")
<1>1. Init /\ part = "account" => Account!Init
  BY DEF Init
<1>2. [Next]_vars /\ part = "account" => [Account!Next]_(Account!vars)
  BY DEF Next, vars, accountVars, Account!vars, Account!rows, Account!call, Account!past
<1>3. [Next]_vars => ((part = "account")' <=> part = "account")
  BY DEF Next, vars
<1> QED BY <1>1, <1>2, <1>3, PTL DEF Spec, Account!Spec

LEMMA IdempotencyRuns == Spec => Idempotency!Spec \/ []~(part = "idempotency")
<1>1. Init /\ part = "idempotency" => Idempotency!Init
  BY DEF Init
<1>2. [Next]_vars /\ part = "idempotency" => [Idempotency!Next]_(Idempotency!vars)
  BY DEF Next, vars, idempotencyVars, Idempotency!vars
<1>3. [Next]_vars => ((part = "idempotency")' <=> part = "idempotency")
  BY DEF Next, vars
<1> QED BY <1>1, <1>2, <1>3, PTL DEF Spec, Idempotency!Spec

LEMMA IdempotencyFaultsRun == Spec => IdempotencyFaults!Spec \/ []~(part = "idempotency_faults")
<1>1. Init /\ part = "idempotency_faults" => IdempotencyFaults!Init
  BY DEF Init
<1>2. [Next]_vars /\ part = "idempotency_faults"
      => [IdempotencyFaults!Next]_(IdempotencyFaults!vars)
  BY DEF Next, vars, idempotencyVars, IdempotencyFaults!vars
<1>3. [Next]_vars => ((part = "idempotency_faults")' <=> part = "idempotency_faults")
  BY DEF Next, vars
<1> QED BY <1>1, <1>2, <1>3, PTL DEF Spec, IdempotencyFaults!Spec

LEMMA RewardsRun == Spec => Rewards!Spec \/ []~(part = "rewards")
<1>1. Init /\ part = "rewards" => Rewards!Init
  BY DEF Init
<1>2. [Next]_vars /\ part = "rewards" => [Rewards!Next]_(Rewards!vars)
  BY DEF Next, vars, rewardsVars, Rewards!vars, Rewards!rows, Rewards!args
<1>3. [Next]_vars => ((part = "rewards")' <=> part = "rewards")
  BY DEF Next, vars
<1> QED BY <1>1, <1>2, <1>3, PTL DEF Spec, Rewards!Spec

LEMMA RewardsRedeemRun == Spec => RewardsRedeem!Spec \/ []~(part = "rewards_redeem")
<1>1. Init /\ part = "rewards_redeem" => RewardsRedeem!Init
  BY DEF Init
<1>2. [Next]_vars /\ part = "rewards_redeem" => [RewardsRedeem!Next]_(RewardsRedeem!vars)
  BY DEF Next, vars, rewardsVars, RewardsRedeem!vars, RewardsRedeem!rows, RewardsRedeem!args
<1>3. [Next]_vars => ((part = "rewards_redeem")' <=> part = "rewards_redeem")
  BY DEF Next, vars
<1> QED BY <1>1, <1>2, <1>3, PTL DEF Spec, RewardsRedeem!Spec

LEMMA TournamentsRun == Spec => Tournaments!Spec \/ []~(part = "tournaments")
<1>1. Init /\ part = "tournaments" => Tournaments!Init
  BY DEF Init
<1>2. [Next]_vars /\ part = "tournaments" => [Tournaments!Next]_(Tournaments!vars)
  BY DEF Next, vars, tournamentsVars, Tournaments!vars, Tournaments!rows
<1>3. [Next]_vars => ((part = "tournaments")' <=> part = "tournaments")
  BY DEF Next, vars
<1> QED BY <1>1, <1>2, <1>3, PTL DEF Spec, Tournaments!Spec

LEMMA AdministrationRuns == Spec => Administration!Spec \/ []~(part = "administration")
<1>1. Init /\ part = "administration" => Administration!Init
  BY DEF Init
<1>2. [Next]_vars /\ part = "administration" => [Administration!Next]_(Administration!vars)
  BY DEF Next, vars, administrationVars, Administration!vars
<1>3. [Next]_vars => ((part = "administration")' <=> part = "administration")
  BY DEF Next, vars
<1> QED BY <1>1, <1>2, <1>3, PTL DEF Spec, Administration!Spec

LEMMA ErrorsRun == Spec => Errors!Spec \/ []~(part = "errors")
<1>1. Init /\ part = "errors" => Errors!Init
  BY DEF Init
<1>2. [Next]_vars /\ part = "errors" => [Errors!Next]_(Errors!vars)
  BY DEF Next, vars, errorsVars, Errors!vars
<1>3. [Next]_vars => ((part = "errors")' <=> part = "errors")
  BY DEF Next, vars
<1> QED BY <1>1, <1>2, <1>3, PTL DEF Spec, Errors!Spec

LEMMA LifecycleRuns == Spec => Lifecycle!Spec \/ []~(part = "lifecycle")
<1>1. Init /\ part = "lifecycle" => Lifecycle!Init
  BY DEF Init
<1>2. [Next]_vars /\ part = "lifecycle" => [Lifecycle!Next]_(Lifecycle!vars)
  BY DEF Next, vars, lifecycleVars, Lifecycle!vars, Lifecycle!traffic, Lifecycle!probing,
       Lifecycle!closing
<1>3. [Next]_vars => ((part = "lifecycle")' <=> part = "lifecycle")
  BY DEF Next, vars
<1> QED BY <1>1, <1>2, <1>3, PTL DEF Spec, Lifecycle!Spec

\* The variables of the part that runs keep their types, and its rows, records and calls fit
\* each other, for the values of the constants of each component of this module and the
\* bounds of this module for Sessions, Idempotency and Rewards.
THEOREM ShapesKept == Spec => []TypeOK
<1>1. /\ Sessions!Spec => []Sessions!TypeOK
      /\ Tokens!Spec => []Tokens!TypeOK
      /\ Registration!Spec => []Registration!TypeOK
      /\ Verification!Spec => []Verification!TypeOK
      /\ ResetCodes!Spec => []ResetCodes!TypeOK
      /\ Account!Spec => []Account!TypeOK
      /\ IdempotencyFaults!Spec => []IdempotencyFaults!TypeOK
      /\ Rewards!Spec => []Rewards!TypeOK
      /\ Tournaments!Spec => []Tournaments!TypeOK
      /\ Administration!Spec => []Administration!TypeOK
      /\ Errors!Spec => []Errors!TypeOK
      /\ Lifecycle!Spec => []Lifecycle!TypeOK
  BY ApiAssumption, Sessions!SignedOutForGood, TokensSafe, RegistrationSafe, VerifiedHonestly,
       ResetCodesSafe, AccountSafe, IdempotencyFaults!AnswersStayTrue,
         Rewards!RedemptionsWhole, NobodyPaysTwice, AdministrationSafe, ErrorsSafe,
           LifecycleSafe, PTL DEF ApiAssumption
<1> QED BY <1>1, SessionsRun, TokensRun, RegistrationRuns, VerificationRuns, ResetCodesRun,
     AccountRuns, IdempotencyFaultsRun, RewardsRun, TournamentsRun, AdministrationRuns,
       ErrorsRun, LifecycleRuns, PTL DEF TypeOK

\* Who was signed out stays out, by tombstone, row and cache, through calls that fail half way,
\* restarts and new secrets (auth.service.ts, jwt.strategy.ts, token.service.ts).
THEOREM OutStaysOut == Spec => []SignedOutStaysOut
<1>1. /\ Sessions!Spec => [](Sessions!TombstonesTrue /\ Sessions!SignedOutStaysOut)
      /\ SessionsCrash!Spec
           => [](SessionsCrash!TombstonesTrue /\ SessionsCrash!SignedOutStaysOut)
      /\ Tokens!Spec => [](Tokens!KindsApart /\ Tokens!RevokedNeverServed
           /\ Tokens!RowOutlivesToken
                         /\ Tokens!RolesFresh)
  BY ApiAssumption, Sessions!SignedOutForGood, SessionsCrash!SignedOutForGood, TokensSafe, PTL
       DEF ApiAssumption
<1> QED BY <1>1, SessionsRun, SessionsCrashRun, TokensRun, PTL DEF SignedOutStaysOut

\* However guesses, resends and crashes meet, codes are tried as often as their cap and the open
\* calls allow and verify what they were made for, and a reset code that was not raced opens
\* once, within its attempts, and does not come back (otp.service.ts, auth.service.ts).
THEOREM CodesStayGuarded == Spec => []CodesGuarded
<1>1. /\ Verification!Spec => [](Verification!GuessesBounded /\ Verification!VerifiedByCode
                               /\ Verification!BonusOnce)
      /\ ResetCodes!Spec => [](ResetCodes!SingleUse /\ ResetCodes!AttemptsCapped
           /\ ResetCodes!StaysGone)
  BY ApiAssumption, GuessesStayBounded, VerifiedHonestly, ResetCodesSafe, PTL DEF ApiAssumption
<1> QED BY <1>1, VerificationRuns, ResetCodesRun, PTL DEF CodesGuarded

\* An account has all its rows or is not there, and who is told of it is told the truth; patches
\* that meet lose nothing, and an exclusion is only extended, whoever registers, edits and fails
\* at once (registerUser, users.service.ts).
THEOREM AccountsStayWhole == Spec => []AccountsWhole
<1>1. /\ Registration!Spec => [](Registration!AccountsComplete /\ Registration!RefusalTrue
                               /\ Registration!AnswerCurrent)
      /\ Account!Spec => [](Account!NothingLost /\ Account!AnswerShows /\ Account!NeverShortened
                          /\ Account!ExclusionShuts)
  BY ApiAssumption, RegistrationSafe, AccountSafe, PTL DEF ApiAssumption
<1> QED BY <1>1, RegistrationRuns, AccountRuns, PTL DEF AccountsWhole

\* A request that is sent again runs once, is answered with what was done for it, a refusal is
\* told as it was meant and not tried again, by a process that has connected to its stores
\* (idempotency.middleware.ts, http-exception.filter.ts, api.ts, prisma.service.ts).
THEOREM EachRunsOnce == Spec => []RequestsRunOnce
<1>0. Idempotency!Spec => [](Idempotency!KeyRunsOnce /\ Idempotency!RetriesReplay)
  BY ApiAssumption, Idempotency!KeyRunsOnceOnly DEF ApiAssumption
<1>1. /\ Idempotency!Spec => [](Idempotency!KeyRunsOnce /\ Idempotency!RetriesReplay)
      /\ IdempotencyFaults!Spec => []IdempotencyFaults!AnswersTrue
      /\ Errors!Spec => [](Errors!NeverLeaks /\ Errors!SameFailure /\ Errors!RefusalsAreFinal
                         /\ Errors!HandlerGreppable)
      /\ Lifecycle!Spec => []Lifecycle!ServesConnected
  BY ApiAssumption, <1>0, IdempotencyFaults!AnswersStayTrue, ErrorsSafe, LifecycleSafe, PTL
       DEF ApiAssumption
<1> QED BY <1>1, IdempotencyRuns, IdempotencyFaultsRun, ErrorsRun, LifecycleRuns, PTL
     DEF RequestsRunOnce

\* Whatever headers clients send, every redemption has its coins unless another user asks under
\* its key, and nobody has more than the code allows on one route; who plays has paid and nobody
\* twice, with the keys clients keep; the audit log tells of nothing that did not happen, and of
\* every credit (wallet.service.ts, rewards.service.ts, tournaments.service.ts, admin.service.ts).
THEOREM CoinsStayExplained == Spec => []CoinsExplained
<1>0. Rewards!Spec => []Rewards!PerUserLimit
  BY ApiAssumption, Rewards!LimitPerUser DEF ApiAssumption
<1>1. /\ Rewards!Spec => []Rewards!PerUserLimit
      /\ RewardsRedeem!Spec => []RewardsRedeem!RedemptionsPaid
      /\ Tournaments!Spec => [](Tournaments!PlayersPaid /\ Tournaments!ChargedOnce)
      /\ Administration!Spec => [](Administration!TrailTrue /\ Administration!CreditsExplained
                                 /\ Administration!CreditedOnce)
  BY ApiAssumption, <1>0, RewardsRedeem!RedemptionsWhole, EveryPlayerPaid, NobodyPaysTwice,
       AdministrationSafe, PTL DEF ApiAssumption
<1> QED BY <1>1, RewardsRun, RewardsRedeemRun, TournamentsRun, AdministrationRuns, PTL
     DEF CoinsExplained

\* The reward of a day goes to whoever claims it first, in every calendar, unless the key of that
\* day was sent as a header, and the readiness probe answers 200 only if each store was up at
\* some moment of that probe (wallet.service.ts, health.controller.ts).
THEOREM StepsStayAsMeant == Spec => StepsAsMeant
<1>1. /\ Rewards!Spec => [][Rewards!GrantedEachDay]_(Rewards!vars)
      /\ Lifecycle!Spec => [][Lifecycle!ReadyMeansUp]_(Lifecycle!vars)
  BY ApiAssumption, Rewards!DayIsGranted, LifecycleSafe, PTL DEF ApiAssumption
<1>2. [Next]_vars /\ part = "rewards" /\ UNCHANGED Rewards!vars => UNCHANGED vars
  BY DEF Next, vars, sessionsVars, tokensVars, registrationVars,
         verificationVars, resetCodesVars, accountVars, idempotencyVars, rewardsVars,
         tournamentsVars, administrationVars, errorsVars, lifecycleVars, authClientVars,
           Rewards!vars, Rewards!rows, Rewards!args
<1>3. [Next]_vars /\ part = "lifecycle" /\ UNCHANGED Lifecycle!vars => UNCHANGED vars
  BY DEF Next, vars, sessionsVars, tokensVars, registrationVars,
         verificationVars, resetCodesVars, accountVars, idempotencyVars, rewardsVars,
         tournamentsVars, administrationVars, errorsVars, lifecycleVars, authClientVars,
           Lifecycle!vars, Lifecycle!traffic, Lifecycle!probing, Lifecycle!closing
<1> DEFINE Step ==
        /\ part = "rewards" => Rewards!GrantedEachDay
        /\ part = "lifecycle" => Lifecycle!ReadyMeansUp
<1>4. /\ [Next]_vars
      /\ part = "rewards" => [Rewards!GrantedEachDay]_(Rewards!vars)
      /\ part = "lifecycle" => [Lifecycle!ReadyMeansUp]_(Lifecycle!vars)
      => [Step]_vars
  BY <1>2, <1>3
<1> HIDE DEF Step
<1>5. Spec => [][Step]_vars
  BY <1>1, <1>4, RewardsRun, LifecycleRuns, PTL DEF Spec
<1> QED BY <1>5 DEF Step, StepsAsMeant
=============================================================================
