----------------------------- MODULE ResetCodes ------------------------------
(***************************************************************************)
(* The password-reset code of one contact: OtpService.issuePasswordReset   *)
(* and consumePasswordReset, one action per Redis command, on one Redis    *)
(* record and the cooldown key.  Codes are numbered as they are made; a    *)
(* guess is a code or no code.                                             *)
(***************************************************************************)
EXTENDS Integers, FiniteSets

CONSTANTS Procs,       \* calls that can be open at the same time
          MaxAttempts, \* OTP_MAX_ATTEMPTS
          MaxIssues,   \* bound: codes
          MaxGuesses   \* bound: calls that enter a code

ResetCodesAssumption ==
    MaxAttempts \in Nat \ {0} /\ MaxIssues \in Nat /\ MaxGuesses \in Nat

Codes == 1 .. MaxIssues
NoCode == 0

VARIABLES
    record,   \* the Redis record: its code, NoCode if there is none, and attempts
    cooldown, \* whether the otpCooldown key is set
    made,     \* the number of codes made
    out,      \* codes delivered
    pc,
    guess,    \* of each call: the code entered
    copy,     \* the record it read, or the code it makes
    wrong,    \* ghost: guesses answered to be wrong, by the code they met
    opened,   \* ghost: times each code was answered to be right
    over,     \* ghost: codes that were accepted, superseded, expired or exhausted
    raced,    \* ghost: codes whose record was written, deleted or expired under a call
              \* that had read it
    guesses

vars == <<record, cooldown, made, out, pc, guess, copy, wrong, opened, over, raced, guesses>>
ghosts == <<wrong, opened, over, raced>>

Absent == [code |-> NoCode, attempts |-> 0]
Go(p, where) == pc' = [pc EXCEPT ![p] = where]
End(p) ==
    /\ Go(p, "idle")
    /\ guess' = [guess EXCEPT ![p] = NoCode]
    /\ copy' = [copy EXCEPT ![p] = Absent]
Gone == over' = over \cup ({record.code} \ {NoCode})

\* The calls that have read the record of a code and still act on their copy of it.
Holders(c) == {p \in Procs : pc[p] \in {"drop", "compare", "del", "put"} /\ copy[p].code = c}

\* The record changes while some of the others may hold a copy of it.
Under(others) ==
    raced' = raced \cup {c \in Codes : c = record.code /\ Holders(c) \cap others # {}}

-----------------------------------------------------------------------------
Init ==
    /\ record = Absent /\ cooldown = FALSE /\ made = 0 /\ out = {}
    /\ pc = [p \in Procs |-> "idle"]
    /\ guess = [p \in Procs |-> NoCode] /\ copy = [p \in Procs |-> Absent]
    /\ wrong = [c \in Codes |-> 0] /\ opened = [c \in Codes |-> 0] /\ over = {}
    /\ raced = {}
    /\ guesses = 0

(* issuePasswordReset                                                      *)

EnforceCooldown(p) ==
    /\ pc[p] = "idle" /\ ~cooldown /\ made < MaxIssues
    /\ made' = made + 1
    /\ copy' = [copy EXCEPT ![p] = [code |-> made + 1, attempts |-> 0]]
    /\ Go(p, "set")
    /\ UNCHANGED <<record, cooldown, out, guess, ghosts, guesses>>

SetCode(p) ==
    /\ pc[p] = "set"
    /\ record' = copy[p]
    /\ Gone /\ Under(Procs \ {p})
    /\ Go(p, "deliver")
    /\ UNCHANGED <<cooldown, made, out, guess, copy, wrong, opened, guesses>>

\* A provider that fails is logged, and the call goes on.
Deliver(p) ==
    /\ pc[p] = "deliver"
    /\ out' \in {out, out \cup {copy[p].code}}
    /\ Go(p, "cool")
    /\ UNCHANGED <<record, cooldown, made, guess, copy, ghosts, guesses>>

StartCooldown(p) ==
    /\ pc[p] = "cool"
    /\ cooldown' = TRUE
    /\ End(p)
    /\ UNCHANGED <<record, made, out, ghosts, guesses>>

(* consumePasswordReset                                                    *)

\* GET; without a record the call is refused.

Get(p, g) ==
    /\ pc[p] = "idle" /\ guesses < MaxGuesses /\ (g \in out \cup {NoCode})
    /\ record # Absent
    /\ guesses' = guesses + 1
    /\ guess' = [guess EXCEPT ![p] = g]
    /\ copy' = [copy EXCEPT ![p] = record]
    /\ Go(p, IF record.attempts >= MaxAttempts THEN "drop" ELSE "compare")
    /\ UNCHANGED <<record, cooldown, made, out, ghosts>>

Drop(p) ==
    /\ pc[p] = "drop"
    /\ record' = Absent
    /\ Gone /\ Under(Procs \ {p})
    /\ End(p)
    /\ UNCHANGED <<cooldown, made, out, wrong, opened, guesses>>

Compare(p) ==
    /\ pc[p] = "compare"
    /\ Go(p, IF guess[p] = copy[p].code THEN "del" ELSE "put")
    /\ UNCHANGED <<record, cooldown, made, out, guess, copy, ghosts, guesses>>

\* DEL of the record, whatever is there by now, and of the cooldown.
Del(p) ==
    /\ pc[p] = "del"
    /\ record' = Absent /\ cooldown' = FALSE
    /\ opened' = [opened EXCEPT ![guess[p]] = @ + 1]
    /\ over' = over \cup ({record.code, guess[p]} \ {NoCode}) /\ Under(Procs \ {p})
    /\ End(p)
    /\ UNCHANGED <<made, out, wrong, guesses>>

\* TTL, then SET of the copy with one attempt more, whatever is there by now: a record
\* that has expired has a TTL of -2, and is written back with a whole new lifetime.
Put(p) ==
    /\ pc[p] = "put"
    /\ record' = [copy[p] EXCEPT !.attempts = @ + 1]
    /\ wrong' = [wrong EXCEPT ![copy[p].code] = @ + 1]
    /\ over' = over \cup ({record.code} \ {NoCode, copy[p].code}) /\ Under(Procs \ {p})
    /\ End(p)
    /\ UNCHANGED <<cooldown, made, out, opened, guesses>>

\* The record's time runs out, at any moment.
Expire ==
    /\ record # Absent
    /\ record' = Absent
    /\ Gone /\ Under(Procs)
    /\ UNCHANGED <<cooldown, made, out, pc, guess, copy, wrong, opened, guesses>>

CooldownEnds ==
    /\ cooldown
    /\ cooldown' = FALSE
    /\ UNCHANGED <<record, made, out, pc, guess, copy, ghosts, guesses>>

\* A call dies, or the provider does not deliver.
Die(p) ==
    /\ pc[p] # "idle"
    /\ End(p)
    /\ UNCHANGED <<record, cooldown, made, out, ghosts, guesses>>

Next ==
    \/ \E p \in Procs :
          \/ EnforceCooldown(p) \/ SetCode(p) \/ Deliver(p) \/ StartCooldown(p)
          \/ (\E g \in Codes \cup {NoCode} : Get(p, g))
          \/ Drop(p) \/ Compare(p) \/ Del(p) \/ Put(p) \/ Die(p)
    \/ Expire \/ CooldownEnds

Spec == Init /\ [][Next]_vars
-----------------------------------------------------------------------------
TypeOK ==
    /\ record.code \in Codes \cup {NoCode}
    /\ record.attempts \in 0 .. MaxAttempts
    /\ record.code <= made /\ out \subseteq 1 .. made
    /\ pc \in [Procs -> {"idle", "set", "deliver", "cool", "drop", "compare", "del", "put"}]
    /\ guesses \in 0 .. MaxGuesses

\* "Redis-only, single-use, attempt-capped" (otp.service.ts 202): a code whose record
\* nothing changes under a call that has read it is accepted once,
SingleUse == \A c \in Codes \ raced : opened[c] <= 1

\* and meets no more wrong guesses than the cap,
AttemptsCapped == \A c \in Codes \ raced : wrong[c] <= MaxAttempts

\* and only a code that was raced comes back once it is used up, superseded or expired.
StaysGone == record.code \in over => record.code \in raced

\* Of every code, which the code does not keep: consumePasswordReset writes back or
\* deletes what it read some awaits ago.
OpensOnce == \A c \in Codes : opened[c] <= 1

\* Of every code: two calls that read the same record count one attempt between them.
CapAlways == \A c \in Codes : wrong[c] <= MaxAttempts

\* Of every code: one that expires while a wrong guess is compared is written back with a
\* whole lifetime, though one caller is all there is ("a 5-minute TTL", SECURITY.md 13).
GoneForGood == record.code \notin over

\* A code is taken from the user who holds it by being accepted, expired, exhausted or
\* superseded by a new one only: no other call's guess at another code undoes it.
NewCodeKept ==
    [][\A p \in Procs : Put(p) => record.code \in {NoCode, copy[p].code}]_vars
=============================================================================
