------------------------------- MODULE Account -------------------------------
(***************************************************************************)
(* UsersService on one account: updateProfile, updatePreferences,          *)
(* setRgLimits and selfExclude, statement by statement, with several calls *)
(* open at once.  The sessions these calls revoke are in Sessions.         *)
(*                                                                         *)
(* Prisma refuses, before it sends anything, a call that names a column    *)
(* the schema does not have; the filter answers 400 to that.  The columns  *)
(* are those of schema.prisma, the selections those of the service, so     *)
(* which call is refused is computed, not assumed.                         *)
(***************************************************************************)
EXTENDS Integers

CONSTANTS Calls,     \* calls of one account
          Values,    \* values a field may be given
          Durations, \* lengths of self-exclusion, in days
          MaxDays    \* bound: the days the clock counts

AccountAssumption ==
    /\ Values \subseteq Nat \ {0}
    /\ Durations \subseteq Nat \ {0}
    /\ \E n \in Durations \cup {0} : \A d \in Durations : d <= n
    /\ MaxDays \in Nat

VARIABLES
    user,     \* the fields of users the profile shows
    prefs,    \* user_preferences
    limits,   \* responsible_gaming_limits: the set of columns with a limit
    records,  \* self_exclusion_records: their endsAt
    status,   \* users.status
    now,      \* the day
    trail,    \* audit_logs: calls with a row
    pc,
    patch,    \* the fields a call names, with their new values
    active,   \* the last end of an active exclusion a call has found, or 0
    ends,     \* the endsAt a call has computed
    answer,   \* how a call has answered
    shown,    \* the profile it has answered with
    written,  \* calls whose statement has changed a row
    since,    \* values a field has got since a call wrote it
    latest,   \* the value last written to each field
    promised  \* the latest end answered when a call began

rows == <<user, prefs, limits, records, status>>
call == <<pc, patch, active, ends, answer, shown>>
past == <<written, since, latest, promised>>
vars == <<rows, now, trail, call, past>>

UserColumns == {"name", "locale", "theme"}
PreferenceColumns == {"chartWindow", "notify"}
LimitColumns == {"dailyBetLimit", "dailyLossLimit", "sessionTimeLimitMinutes"}

PreferenceSelection == {"locale", "theme", "chartWindow", "notify"}
LimitSelection == {"dailyBetLimit", "dailyLossLimit", "sessionTimeLimit", "enabledAt"}

\* What a body may name: at least one field, of those its schema lists.
Bodies(fields) == UNION {[named -> Values] : named \in SUBSET fields \ {{}}}

\* The largest of a set of days; 0 when there is none.
Last(days) == CHOOSE d \in days \cup {0} : \A e \in days : e <= d

\* fault: the row is written back whole, as it stood when the call began.
MergedStale(row, new, old) == [f \in DOMAIN row |-> IF f \in DOMAIN new THEN new[f] ELSE 0]
\* A row with a patch over it.
Merged(row, new, old) ==
    [f \in DOMAIN row |-> IF f \in DOMAIN new THEN new[f] ELSE row[f]]

\* Two rows side by side.
Beside(row, other) ==
    [f \in DOMAIN row \cup DOMAIN other |-> IF f \in DOMAIN row THEN row[f] ELSE other[f]]

-----------------------------------------------------------------------------
Init ==
    /\ user = [f \in UserColumns |-> 0] /\ prefs = [f \in PreferenceColumns |-> 0]
    /\ limits = {} /\ records = {} /\ status = "ACTIVE"
    /\ now = 0 /\ trail = {}
    /\ pc = [c \in Calls |-> "start"] /\ patch = [c \in Calls |-> <<>>]
    /\ active = [c \in Calls |-> 0] /\ ends = active
    /\ answer = [c \in Calls |-> "none"] /\ shown = [c \in Calls |-> user]
    /\ written = {} /\ since = [c \in Calls |-> {}]
    /\ latest = Beside(user, prefs) /\ promised = active

Answered(c, what) ==
    /\ answer' = [answer EXCEPT ![c] = what]
    /\ pc' = [pc EXCEPT ![c] = "done"]

\* What every other call that has written learns of a write.
Wrote(c, new) ==
    /\ written' = written \cup {c}
    /\ since' = [d \in Calls |->
                    IF d = c THEN {<<f, new[f]>> : f \in DOMAIN new}
                    ELSE IF d \in written THEN since[d] \cup {<<f, new[f]>> : f \in DOMAIN new}
                    ELSE {}]
    /\ latest' = [f \in DOMAIN latest |-> IF f \in DOMAIN new THEN new[f] ELSE latest[f]]

(* Profile and preferences.                                                *)

\* Only the fields the body names are in the statement.
UpdateProfile(c) ==
    /\ pc[c] = "start"
    /\ \E new \in Bodies(UserColumns) :
          /\ user' = Merged(user, new, user)
          /\ patch' = [patch EXCEPT ![c] = new]
          /\ Wrote(c, new)
    /\ pc' = [pc EXCEPT ![c] = "auditProfile"]
    /\ UNCHANGED <<prefs, limits, records, status, now, trail, active, ends, answer, shown, promised>>

\* A body that names locale or theme is refused: user_preferences has neither.
UpdatePreferences(c) ==
    /\ pc[c] = "start"
    /\ \E new \in Bodies(PreferenceSelection) :
          /\ patch' = [patch EXCEPT ![c] = new]
          /\ \/ /\ DOMAIN new \subseteq PreferenceColumns
                /\ prefs' = Merged(prefs, new, prefs)
                /\ Wrote(c, new)
                /\ pc' = [pc EXCEPT ![c] = "auditPreferences"]
                /\ UNCHANGED answer
             \/ /\ ~ (DOMAIN new \subseteq PreferenceColumns)
                /\ Answered(c, "invalid")
                /\ UNCHANGED <<prefs, written, since, latest>>
    /\ UNCHANGED <<user, limits, records, status, now, trail, active, ends, shown, promised>>

\* record() swallows a failing insert.
WriteAudit(c) ==
    /\ pc[c] \in {"auditProfile", "auditPreferences"}
    /\ trail' \in {trail, trail \cup {c}}
    /\ pc' = [pc EXCEPT ![c] =
                 IF pc[c] = "auditProfile" THEN "readProfile" ELSE "readPreferences"]
    /\ UNCHANGED <<rows, now, patch, active, ends, answer, shown, past>>

ReadProfile(c) ==
    /\ pc[c] = "readProfile"
    /\ Answered(c, "ok")
    /\ shown' = [shown EXCEPT ![c] = user]
    /\ UNCHANGED <<rows, now, trail, patch, active, ends, past>>

\* Of the update, and of a GET of its own.
GetPreferences(c) ==
    /\ pc[c] \in {"start", "readPreferences"}
    /\ Answered(c, IF PreferenceSelection \subseteq PreferenceColumns THEN "ok" ELSE "invalid")
    /\ UNCHANGED <<rows, now, trail, patch, active, ends, shown, past>>

\* setRgLimits asks for the limits there are before it does anything else, and
\* that selection names a column the table does not have, as GET does.
SetRgLimits(c) ==
    /\ pc[c] = "start"
    /\ pc' = [pc EXCEPT ![c] = "limits"]
    /\ UNCHANGED <<rows, now, trail, patch, active, ends, answer, shown, past>>

GetRgLimits(c) ==
    /\ pc[c] = "limits"
    /\ ~ (LimitSelection \subseteq LimitColumns)
    /\ Answered(c, "invalid")
    /\ UNCHANGED <<rows, now, trail, patch, active, ends, shown, past>>

(* Self-exclusion.                                                         *)

\* The running exclusion that ends last is looked for.
FindActive(c, days) ==
    /\ pc[c] = "start"
    /\ active' = [active EXCEPT ![c] = Last({e \in records : e > now})]
    /\ ends' = [ends EXCEPT ![c] = now + days]
    /\ promised' = [promised EXCEPT ![c] = Last({ends[d] : d \in {x \in Calls : answer[x] = "excluded"}})]
    /\ pc' = [pc EXCEPT ![c] = "compare"]
    /\ UNCHANGED <<rows, now, trail, patch, answer, shown, written, since, latest>>

\* The one found runs at least as long.
Conflict(c) ==
    /\ pc[c] = "compare" /\ active[c] >= ends[c]
    /\ Answered(c, "conflict")
    /\ UNCHANGED <<rows, now, trail, patch, active, ends, shown, past>>

\* The record, the status and the audit row are one transaction.
SelfExclude(c) ==
    /\ pc[c] = "compare" /\ active[c] < ends[c]
    /\ records' = records \cup {ends[c]}
    /\ status' = "SELF_EXCLUDED"
    /\ trail' = trail \cup {c}
    /\ Answered(c, "excluded")
    /\ UNCHANGED <<user, prefs, limits, now, patch, active, ends, shown, past>>

\* isSelfExcluded compares the records with the day it is.
NextDay ==
    /\ now < MaxDays /\ now' = now + 1
    /\ UNCHANGED <<rows, trail, call, past>>

Step(c) ==
    \/ UpdateProfile(c) \/ UpdatePreferences(c) \/ WriteAudit(c) \/ ReadProfile(c)
    \/ GetPreferences(c) \/ SetRgLimits(c) \/ GetRgLimits(c)
    \/ \E days \in Durations : FindActive(c, days)
    \/ Conflict(c) \/ SelfExclude(c)

Next == NextDay \/ \E c \in Calls : Step(c)

Spec == Init /\ [][Next]_vars

\* A request that was started is carried on; starting one is not owed.
FairSpec ==
    /\ Spec
    /\ \A c \in Calls : WF_vars(WriteAudit(c) \/ ReadProfile(c) \/ GetRgLimits(c)
                                \/ Conflict(c) \/ SelfExclude(c))

-----------------------------------------------------------------------------
TypeOK ==
    /\ user \in [UserColumns -> Values \cup {0}]
    /\ prefs \in [PreferenceColumns -> Values \cup {0}]
    /\ limits \subseteq LimitColumns
    /\ records \subseteq 1 .. MaxDays + Last(Durations)
    /\ status \in {"ACTIVE", "SELF_EXCLUDED"}
    /\ now \in 0 .. MaxDays /\ trail \subseteq Calls /\ written \subseteq Calls
    /\ \A c \in Calls : pc[c] \in {"start", "auditProfile", "auditPreferences",
                                   "readProfile", "readPreferences", "limits", "compare", "done"}

\* Patches of different fields that meet leave both values: a field holds what
\* the last update that named it gave it (users.service.ts 93-99, 202-209).
NothingLost == latest = Beside(user, prefs)

\* The profile an update answers with shows every field it named as it set it, or
\* as a later update did (users.service.ts 113).
AnswerShows ==
    \A c \in Calls : answer[c] = "ok" =>
        \A f \in DOMAIN patch[c] : <<f, shown[c][f]>> \in since[c]

\* "An active exclusion may only be extended, never shortened": no call is
\* answered with an end before one that was answered when it began and still ran
\* (users.service.ts 318-319).
NeverShortened ==
    \A c \in Calls : answer[c] = "excluded" => ends[c] > promised[c]

\* While an exclusion runs, the status that login and the guards read is shut.
ExclusionShuts == (\E e \in records : e > now) => status = "SELF_EXCLUDED"

\* "A player can set, at any time" a daily bet limit (RESPONSIBLE-GAMING.md 71-73).
LimitsCanBeSet == \A c \in Calls : (pc[c] = "limits") ~> (limits # {})

\* updatePreferences answers with the preferences when it has saved them
\* (users.controller.ts 107).
SavedIsAnswered ==
    \A c \in written : pc[c] = "done" => answer[c] # "invalid"
=============================================================================
