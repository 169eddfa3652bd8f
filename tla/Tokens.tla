------------------------------- MODULE Tokens -------------------------------
(***************************************************************************)
(* The tokens of one account over time: TokenService signs a pair for a    *)
(* session, JwtStrategy accepts access tokens, AuthService.refresh takes   *)
(* refresh tokens, signing out writes a tombstone with a lifetime of its   *)
(* own, and restarts change the secrets and the lifetimes under all of     *)
(* them.  Calls are whole here; how they interleave is in Sessions.        *)
(***************************************************************************)
EXTENDS Integers, FiniteSets

CONSTANTS
    Configs,      \* settings a restart may bring: access and refresh, each [key, ttl]
    Margin,       \* what a tombstone outlives an access token by
    PrincipalTtl, \* how long a principal stays cached
    MaxSessions,  \* bound: rows of user_sessions
    MaxTime       \* bound: the clock

Kinds == {"access", "refresh"}
Ids   == 1 .. MaxSessions

TokensAssumption ==
    /\ \A c \in Configs, k \in Kinds : c[k].ttl \in Nat \ {0}
    /\ Margin \in Nat /\ PrincipalTtl \in Nat
    /\ MaxSessions \in Nat /\ MaxTime \in Nat

VARIABLES
    now,
    config,   \* what the process was started with
    roles,    \* the role of the account
    changed,  \* when it was last changed
    tokens,   \* the tokens that were signed
    rows,     \* sid -> its row: jti (0: not signed yet), expires, revoked; or Absent
    stones,   \* sid -> when its tombstone goes
    cached,   \* sid -> the principal in Redis and when it goes
    opening,  \* the session whose pair is being signed, or 0
    from,     \* the session it replaces, or 0
    buried,   \* sessions whose revocation has finished
    served    \* what the last step accepted: to which end, of which kind; or Nothing

vars == <<now, config, roles, changed, tokens, rows, stones, cached, opening, from, buried, served>>

Absent  == [jti |-> 0, expires |-> -1, revoked |-> FALSE]
Nothing == [to |-> "none", typ |-> "none", sid |-> 0, role |-> "none"]

-----------------------------------------------------------------------------
\* A pair for session s: the kinds differ in secret, lifetime and claim.
Pair(s) ==
    {[typ |-> k, key |-> config[k].key, sid |-> s, jti |-> s, role |-> roles,
      exp |-> now + config[k].ttl] : k \in Kinds}

\* Signature, expiry and the typ claim.
Verifies(t, kind) == t.key = config[kind].key /\ t.exp > now /\ t.typ = kind

\* The row of a session, when it may still be used.
Usable(s) == rows[s] # Absent /\ ~rows[s].revoked /\ rows[s].expires > now

Tombstones(which) ==
    [s \in Ids |-> IF s \in which THEN now + config.access.ttl + Margin ELSE stones[s]]

\* Revoked, tombstoned and out of the cache.
End(which) ==
    /\ rows'   = [s \in Ids |-> IF s \in which THEN [rows[s] EXCEPT !.revoked = TRUE] ELSE rows[s]]
    /\ stones' = Tombstones(which)
    /\ cached' = [s \in Ids |-> IF s \in which THEN [role |-> "none", until |-> 0] ELSE cached[s]]
    /\ buried' = buried \cup which

Create(s) == [rows EXCEPT ![s] = [jti |-> 0, expires |-> now + config.refresh.ttl, revoked |-> FALSE]]

Init ==
    /\ now = 0 /\ config \in Configs
    /\ roles = "player" /\ changed = 0
    /\ tokens = {} /\ rows = [s \in Ids |-> Absent]
    /\ stones = [s \in Ids |-> 0]
    /\ cached = [s \in Ids |-> [role |-> "none", until |-> 0]]
    /\ opening = 0 /\ from = 0 /\ buried = {} /\ served = Nothing

Open(s) ==
    /\ opening = 0 /\ rows[s] = Absent
    /\ rows' = Create(s) /\ opening' = s
    /\ served' = Nothing
    /\ UNCHANGED <<now, config, roles, changed, tokens, stones, cached, from, buried>>

\* The pair is signed, the row gets its hash and its expiry, and the session it
\* replaces is tombstoned.
Sign ==
    /\ opening # 0
    /\ tokens' = tokens \cup Pair(opening)
    /\ rows'   = [rows EXCEPT ![opening].jti = opening,
                              ![opening].expires = now + config.refresh.ttl]
    /\ opening' = 0 /\ from' = 0
    /\ stones' = Tombstones({from} \ {0}) /\ buried' = buried \cup ({from} \ {0})
    /\ cached' = [s \in Ids |-> IF s = from THEN [role |-> "none", until |-> 0] ELSE cached[s]]
    /\ served' = Nothing
    /\ UNCHANGED <<now, config, roles, changed>>

\* A live session is replaced by a new one.
Refresh(t, s) ==
    /\ Verifies(t, "refresh") /\ Usable(t.sid) /\ rows[t.sid].jti = t.jti
    /\ opening = 0 /\ rows[s] = Absent
    /\ rows' = [Create(s) EXCEPT ![t.sid].revoked = TRUE]
    /\ opening' = s /\ from' = t.sid
    /\ served' = [to |-> "refresh", typ |-> t.typ, sid |-> t.sid, role |-> t.role]
    /\ UNCHANGED <<now, config, roles, changed, tokens, stones, cached, buried>>

\* The token of a session that was replaced or signed out: every session ends.
\* A hash the row does not have does the same; with one pair per session the row
\* is revoked by then.
Reuse(t) ==
    /\ Verifies(t, "refresh") /\ rows[t.sid].revoked
    /\ opening = 0
    /\ End({s \in Ids : rows[s] # Absent /\ ~rows[s].revoked})
    /\ served' = Nothing
    /\ UNCHANGED <<now, config, roles, changed, tokens, opening, from>>

\* The cached principal, or the account as the database has it.
ReadPrincipal(t) ==
    IF cached[t.sid].until > now
    THEN cached[t.sid]
    ELSE [role |-> roles, until |-> now + PrincipalTtl]

\* A guarded request: no tombstone, then the cache, then the row.
Request(t) ==
    /\ Verifies(t, "access") /\ stones[t.sid] <= now
    /\ cached[t.sid].until > now \/ Usable(t.sid)
    /\ cached' = [cached EXCEPT ![t.sid] = ReadPrincipal(t)]
    /\ served' = [to |-> "access", typ |-> t.typ, sid |-> t.sid, role |-> ReadPrincipal(t).role]
    /\ UNCHANGED <<now, config, roles, changed, tokens, rows, stones, opening, from, buried>>

\* logout, with an access token that passes the guard.
SignOut(t) ==
    /\ Verifies(t, "access") /\ stones[t.sid] <= now
    /\ cached[t.sid].until > now \/ Usable(t.sid)
    /\ End({t.sid})
    /\ served' = Nothing
    /\ UNCHANGED <<now, config, roles, changed, tokens, opening, from>>

ChangeRoles ==
    /\ roles' = IF roles = "player" THEN "admin" ELSE "player"
    /\ changed' = now /\ served' = Nothing
    /\ UNCHANGED <<now, config, tokens, rows, stones, cached, opening, from, buried>>

\* A restart between calls, with the settings it finds.
Restart ==
    /\ opening = 0
    /\ config' \in Configs \ {config} /\ served' = Nothing
    /\ UNCHANGED <<now, roles, changed, tokens, rows, stones, cached, opening, from, buried>>

Tick ==
    /\ now < MaxTime /\ now' = now + 1 /\ served' = Nothing
    /\ UNCHANGED <<config, roles, changed, tokens, rows, stones, cached, opening, from, buried>>

Next ==
    \/ Sign \/ ChangeRoles \/ Restart \/ Tick
    \/ \E s \in Ids : Open(s)
    \/ \E t \in tokens : Request(t) \/ SignOut(t) \/ Reuse(t)
    \/ \E t \in tokens, s \in Ids : Refresh(t, s)

Spec == Init /\ [][Next]_vars

-----------------------------------------------------------------------------
TypeOK ==
    /\ now \in 0 .. MaxTime /\ config \in Configs
    /\ roles \in {"player", "admin"} /\ changed \in 0 .. now
    /\ \A t \in tokens : t.sid \in Ids /\ rows[t.sid].jti = t.jti
    /\ opening \in {0} \cup Ids /\ (from # 0 => opening # 0 /\ rows[from].revoked)
    /\ buried \subseteq {s \in Ids : rows[s].revoked}
    /\ served.sid \in {0} \cup Ids

\* "A refresh token can never be replayed as an access token", and the other way
\* round, also under one secret for both (token.service.ts 26-27).
KindsApart == served.typ = served.to

\* A session that was signed out or replaced is not served again, however long its
\* tokens live and whatever lifetimes a restart has brought (auth.service.ts 700-719).
RevokedNeverServed == served.sid \notin buried

\* The row of a session never expires before its refresh token does, so a client
\* is told that the token has expired, not that its session is unknown.
RowOutlivesToken ==
    \A t \in tokens : t.typ = "refresh" => t.exp <= rows[t.sid].expires

\* A role that was taken away or given is in force PrincipalTtl later, although the
\* access token carries the old one (jwt.strategy.ts 16, 97-127).
RolesFresh ==
    served.to = "access" /\ now >= changed + PrincipalTtl => served.role = roles

\* "The TTL only needs to cover that window - after it, the token is expired
\* anyway" (auth.service.ts 706-707): a token outlives no tombstone.
StoneCovers ==
    \A t \in tokens : t.typ = "access" /\ t.sid \in buried /\ stones[t.sid] <= now => t.exp <= now
=============================================================================
