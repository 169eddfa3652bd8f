--------------------------- MODULE Administration ---------------------------
(***************************************************************************)
(* The mutations of an administrator - a user's status, a credit, a        *)
(* setting - and the audit trail: each is a statement or a transaction of  *)
(* its own, the audit row is a second one, and the process can fail or end *)
(* between the two.  A call is made again with its Idempotency-Key when it *)
(* failed.  The interceptor adds a row of its own to a call that succeeded.*)
(***************************************************************************)
EXTENDS Integers, Sequences, FiniteSets

CONSTANTS Calls,     \* calls of the endpoints
          Kind,      \* [Calls -> {"status", "credit", "setting"}]
          Value,     \* [Calls -> Values], the status, the amount or the setting's value
          Values,
          Roles,     \* [Calls -> SUBSET {"player", "admin", "super_admin"}], of the caller
          Tries,     \* bound: how often a call is made
          Null       \* nothing written yet

AdministrationAssumption ==
    /\ Kind \in [Calls -> {"status", "credit", "setting"}]
    /\ Value \in [Calls -> Values] /\ Null \notin Values
    /\ Roles \in [Calls -> SUBSET {"player", "admin", "super_admin"}]
    /\ Tries \in [Calls -> Nat \ {0}]

VARIABLES
    at,        \* the statement each call is at
    tries,     \* how often each call was made
    status, setting,  \* of the one user, the one setting
    ledger,    \* keys credited; the key of a call is the call
    sessions,  \* does the user have a live session row?
    audit,     \* audit_logs, in the order of their rows
    did        \* ghost: the mutations committed, in their order

vars == <<at, tries, status, setting, ledger, sessions, audit, did>>

Points == {"idle", "mutate", "audit", "revoke", "respond", "done", "failed", "lost"}
Running(c) == at[c] \in {"mutate", "audit", "revoke", "respond"}

\* The row of a service, of the wallet inside its transaction, of the interceptor.
Row(c, action) == [action |-> action, call |-> c, value |-> Value[c]]
Audited(c, action) == \E i \in 1 .. Len(audit) : audit[i] = Row(c, action)
-----------------------------------------------------------------------------
Init ==
    /\ at = [c \in Calls |-> "idle"] /\ tries = [c \in Calls |-> 0]
    /\ status = Null /\ setting = Null /\ ledger = {} /\ sessions = TRUE
    /\ audit = <<>> /\ did = <<>>

Goto(c, point) == at' = [at EXCEPT ![c] = point]

\* @Roles of the controller, overridden by the route of the settings; a super admin
\* passes every check.
Permitted(c) ==
    \/ "super_admin" \in Roles[c]
    \/ Kind[c] # "setting" /\ "admin" \in Roles[c]

\* A call, or the retry of one that failed or was lost; the guards refuse it or let it on.
Call(c) ==
    /\ at[c] \in {"idle", "failed", "lost"} /\ tries[c] < Tries[c]
    /\ tries' = [tries EXCEPT ![c] = @ + 1]
    /\ Goto(c, IF Permitted(c) THEN "mutate" ELSE "done")
    /\ UNCHANGED <<status, setting, ledger, sessions, audit, did>>

Mutated(c) == did' = Append(did, c)

\* user.update
SetStatus(c) ==
    /\ Kind[c] = "status" /\ at[c] = "mutate"
    /\ status' = Value[c] /\ Mutated(c) /\ Goto(c, "audit")
    /\ UNCHANGED <<tries, setting, ledger, sessions, audit>>

\* wallet.credit: the ledger row and its audit row commit together; a key that is
\* there answers with its movement.

Credit(c) ==
    /\ Kind[c] = "credit" /\ at[c] = "mutate" /\ Goto(c, "audit")
    /\ IF c \in ledger THEN UNCHANGED <<ledger, audit, did>>
       ELSE /\ ledger' = ledger \cup {c} /\ Mutated(c)
            /\ audit' = Append(audit, Row(c, "wallet.credit"))
    /\ UNCHANGED <<tries, status, setting, sessions>>

\* appSetting.upsert
UpsertAppSetting(c) ==
    /\ Kind[c] = "setting" /\ at[c] = "mutate"
    /\ setting' = Value[c] /\ Mutated(c) /\ Goto(c, "audit")
    /\ UNCHANGED <<tries, status, ledger, sessions, audit>>

Action(c) == CASE Kind[c] = "status"  -> "user.status"
               [] Kind[c] = "credit"  -> "wallet.admin_credit"
               [] Kind[c] = "setting" -> "settings.update"

\* auditLog.create; a suspension then revokes the sessions.

WriteAudit(c) ==
    /\ at[c] = "audit"
    /\ audit' = Append(audit, Row(c, Action(c)))
    /\ Goto(c, IF Kind[c] = "status" /\ Value[c] \in {"SUSPENDED", "SELF_EXCLUDED"}
               THEN "revoke" ELSE "respond")
    /\ UNCHANGED <<tries, status, setting, ledger, sessions, did>>

\* userSession.updateMany
Revoke(c) ==
    /\ at[c] = "revoke" /\ sessions' = FALSE /\ Goto(c, "respond")
    /\ UNCHANGED <<tries, status, setting, ledger, audit, did>>

\* The handler has returned: the interceptor records it, and its failure is swallowed.
Respond(c) ==
    /\ at[c] = "respond" /\ Goto(c, "done")
    /\ \/ audit' = Append(audit, Row(c, "http.admin"))
       \/ UNCHANGED audit
    /\ UNCHANGED <<tries, status, setting, ledger, sessions, did>>

\* A statement fails, or the process ends: what was committed stays.
Fail(c) ==
    /\ at[c] \in {"mutate", "audit", "revoke"} /\ Goto(c, "failed")
    /\ UNCHANGED <<tries, status, setting, ledger, sessions, audit, did>>

Crash ==
    /\ \E c \in Calls : Running(c)
    /\ at' = [c \in Calls |-> IF Running(c) THEN "lost" ELSE at[c]]
    /\ UNCHANGED <<tries, status, setting, ledger, sessions, audit, did>>

Next ==
    \/ \E c \in Calls : \/ Call(c) \/ SetStatus(c) \/ Credit(c) \/ UpsertAppSetting(c)
                        \/ WriteAudit(c) \/ Revoke(c) \/ Respond(c) \/ Fail(c)
    \/ Crash

Spec == Init /\ [][Next]_vars
-----------------------------------------------------------------------------
TypeOK ==
    /\ \A c \in Calls : /\ at[c] \in Points /\ tries[c] \in 0 .. Tries[c]
                        /\ Running(c) => Permitted(c)
    /\ status \in Values \cup {Null} /\ setting \in Values \cup {Null}
    /\ ledger \subseteq Calls /\ sessions \in BOOLEAN
    /\ \A i \in 1 .. Len(audit) : audit[i].call \in Calls

\* The trail says nothing that did not happen, whatever failed, crashed and was retried:
\* every row tells of a mutation that was committed before it.
TrailTrue ==
    \A i \in 1 .. Len(audit) : \E j \in 1 .. Len(did) : did[j] = audit[i].call

\* "money and its trail commit together" (wallet.service.ts 256): a credit has its audit
\* row, and is made once however often its call is.
CreditsExplained == \A c \in ledger : Audited(c, "wallet.credit")
CreditedOnce ==
    \A i, j \in 1 .. Len(did) : did[i] = did[j] /\ Kind[did[i]] = "credit" => i = j

\* "Every admin mutation records actor, action, target, and reason" (docs/SECURITY.md 91):
\* a mutation whose call has ended has its row.
EveryMutationAudited ==
    \A i \in 1 .. Len(did) : ~ Running(did[i]) => Audited(did[i], Action(did[i]))

\* "Replaying a request with the same key returns the original response instead of
\* performing the action twice" (idempotent.decorator.ts 37): one call, one credit, one row.
OneRowPerCredit ==
    \A i, j \in 1 .. Len(audit) :
        audit[i] = audit[j] /\ audit[i].action = "wallet.admin_credit" => i = j
=============================================================================
